---- MODULE Spec2Model ----
(***************************************************************************)
(* Model of the schedule generator (daschedule.py, flask_app.py,           *)
(* format_schedule.py).  Strings are sequences of one-character strings,   *)
(* Python indices are 0-based and translated where a sequence is read.     *)
(* The program is a library of functions without state of its own: a       *)
(* behaviour is one call (op, args), and ret is what the call returned or   *)
(* raised once pc = "done".  args holds the caller's objects, and log the   *)
(* create_svg calls completed so far with what each was passed and         *)
(* returned; a session is a caller making several create_svg calls with    *)
(* the tables it holds.  module holds the module-level names of           *)
(* daschedule.py as they are bound at the moment, and local the local       *)
(* names of a call that is followed step by step.                           *)
(***************************************************************************)
EXTENDS Integers, Sequences, FiniteSets, TLC

VARIABLES op, args, pc, ret, log, module, local

vars == <<op, args, pc, ret, log, module, local>>

(* ---------------------------- bounds ----------------------------------- *)
MaxLen == 3        \* longest text of an enumerated fit call
MaxSplitLen == 5   \* longest enumerated text of a split call
MaxAdv == 2        \* largest glyph advance per unit of font size
MaxW == 6          \* largest max_width of an enumerated fit call
MaxSize == 3       \* largest base_size / min_size of an enumerated fit call
MaxEntries == 2    \* most entries of an enumerated normalizer input
MaxKeyLen == 2     \* longest string key of an enumerated normalizer input
MaxIntKey == 1     \* largest integer key of an enumerated normalizer input
MaxHeight == 3     \* largest band height of an enumerated constant set
MaxCalls == 3      \* most create_svg calls of a session
MaxBreak == 6      \* largest break height of an enumerated constant set
MaxEvents == 2     \* most calendar events of an enumerated event list

Chars == {"A", "B", " "}

RECURSIVE SeqsUpTo(_, _)
SeqsUpTo(S, n) ==
    IF n = 0 THEN {<<>>}
    ELSE LET shorter == SeqsUpTo(S, n - 1)
         IN  shorter \cup {Append(s, c) : s \in {t \in shorter : Len(t) = n - 1}, c \in S}

\* the two texts the split-boundary law names
ExampleMid == <<"A", "A", "A", "A", " ", "B", "B", "B", "B">>
ExampleOnly == <<"A", " ", "B", "B", "B", "B", "B", "B", "B", "B">>

Texts == SeqsUpTo(Chars, MaxLen)

SplitTexts == SeqsUpTo(Chars, MaxSplitLen) \cup {ExampleMid, ExampleOnly}

Fonts == [Chars -> 1..MaxAdv]

(* ------------------------ Python string helpers ------------------------ *)
\* text[lo:hi] for 0 <= lo, hi <= len(text)
Slice(text, lo, hi) == SubSeq(text, lo + 1, hi)

\* " " in text
HasSpace(text) == \E i \in 1..Len(text) : text[i] = " "

\* text.find(" ", start): lowest 0-based index >= start holding a space, else -1
Find(text, start) ==
    LET hits == {i \in start..(Len(text) - 1) : text[i + 1] = " "}
    IN  IF hits = {} THEN -1 ELSE CHOOSE i \in hits : \A j \in hits : i <= j

\* text.rfind(" ", 0, end): highest 0-based index < end holding a space, else -1
RFind(text, end) ==
    LET hits == {i \in 0..(end - 1) : i < Len(text) /\ text[i + 1] = " "}
    IN  IF hits = {} THEN -1 ELSE CHOOSE i \in hits : \A j \in hits : i >= j

RECURSIVE LStrip(_)
LStrip(text) ==
    IF text # <<>> /\ Head(text) = " " THEN LStrip(Tail(text)) ELSE text

RECURSIVE RStrip(_)
RStrip(text) ==
    IF text # <<>> /\ text[Len(text)] = " "
    THEN RStrip(SubSeq(text, 1, Len(text) - 1))
    ELSE text

\* text.strip()
Strip(text) == RStrip(LStrip(text))

(* --------------------------- text metrics ------------------------------ *)
RECURSIVE AdvanceSum(_, _)
AdvanceSum(f, text) ==
    IF text = <<>> THEN 0 ELSE f[Head(text)] + AdvanceSum(f, Tail(text))

\* font.getlength(text) at font_size: the glyph advances of the text, scaled
\* by the size
measure_text_width(text, font_size, f) == AdvanceSum(f, text) * font_size

(* --------------------------- text fitter ------------------------------- *)
\* split_text_two_lines with the tie between the two candidate spaces given
\* to the space at or after the midpoint (< in place of <=)
split_text_two_lines_tie_right(text) ==
    IF ~HasSpace(text) THEN <<text>>
    ELSE LET mid == Len(text) \div 2
             left_space == RFind(text, mid)
             right_space == Find(text, mid)
         IN  IF left_space = -1 /\ right_space = -1 THEN <<text>>
             ELSE LET split_pos ==
                          IF left_space = -1 THEN right_space
                          ELSE IF right_space = -1 THEN left_space
                          ELSE IF (mid - left_space) < (right_space - mid)
                               THEN left_space ELSE right_space
                      line1 == Strip(Slice(text, 0, split_pos))
                      line2 == Strip(Slice(text, split_pos + 1, Len(text)))
                  IN  <<line1, line2>>

\* the text cut at its middle whether or not a space is there
split_text_two_lines_mid_cut(text) ==
    IF ~HasSpace(text) THEN <<text>>
    ELSE <<Strip(Slice(text, 0, Len(text) \div 2)),
           Strip(Slice(text, Len(text) \div 2, Len(text)))>>

split_text_two_lines(text) ==
    IF ~HasSpace(text) THEN <<text>>
    ELSE LET mid == Len(text) \div 2
             left_space == RFind(text, mid)
             right_space == Find(text, mid)
         IN  IF left_space = -1 /\ right_space = -1 THEN <<text>>
             ELSE LET split_pos ==
                          IF left_space = -1 THEN right_space
                          ELSE IF right_space = -1 THEN left_space
                          ELSE IF (mid - left_space) <= (right_space - mid)
                               THEN left_space ELSE right_space
                      line1 == Strip(Slice(text, 0, split_pos))
                      line2 == Strip(Slice(text, split_pos + 1, Len(text)))
                  IN  <<line1, line2>>

\* all(measure_text_width(line, font_size, font) <= max_width for line in lines)
AllFit(lines, max_width, font_size, f) ==
    \A i \in 1..Len(lines) : measure_text_width(lines[i], font_size, f) <= max_width

\* the shrink loop stepping font_size -= 2
RECURSIVE ShrinkSearchStepTwo(_, _, _, _, _)
ShrinkSearchStepTwo(lines, max_width, font_size, min_size, f) ==
    IF font_size >= min_size
    THEN IF AllFit(lines, max_width, font_size, f)
         THEN font_size
         ELSE ShrinkSearchStepTwo(lines, max_width, font_size - 2, min_size, f)
    ELSE min_size

\* the shrink loop returning the size it stopped at instead of min_size
RECURSIVE ShrinkSearchNoFloor(_, _, _, _, _)
ShrinkSearchNoFloor(lines, max_width, font_size, min_size, f) ==
    IF font_size >= min_size
    THEN IF AllFit(lines, max_width, font_size, f)
         THEN font_size
         ELSE ShrinkSearchNoFloor(lines, max_width, font_size - 1, min_size, f)
    ELSE font_size

\* the while loops of fit_text_to_width: from font_size downward, the first
\* size at which all lines fit; min_size when the loop runs out
RECURSIVE ShrinkSearch(_, _, _, _, _)
ShrinkSearch(lines, max_width, font_size, min_size, f) ==
    IF font_size >= min_size
    THEN IF AllFit(lines, max_width, font_size, f)
         THEN font_size
         ELSE ShrinkSearch(lines, max_width, font_size - 1, min_size, f)
    ELSE min_size

\* the loop going on down to size 0 whatever min_size is
shrink_loop_runs_to_zero(font_size, min_size) == font_size >= 0

\* the condition of the while loops: font_size >= min_size
shrink_loop_runs(font_size, min_size) == font_size >= min_size

\* The second component of the returned pair is a list of lines or, on the
\* one-line return with allow_split false, the integer base_size.
LinesValue(lines) == [tag |-> "list", lines |-> lines, int |-> 0]
IntValue(n) == [tag |-> "int", lines |-> <<>>, int |-> n]

fit_text_to_width(text, max_width, base_size, min_size, f, allow_split) ==
    IF measure_text_width(text, base_size, f) <= max_width
    THEN [size |-> base_size,
          second |-> IF allow_split THEN LinesValue(<<text>>) ELSE IntValue(base_size)]
    ELSE IF allow_split /\ HasSpace(text)
         THEN LET lines == split_text_two_lines(text)
              IN  [size |-> ShrinkSearch(lines, max_width, base_size, min_size, f),
                   second |-> LinesValue(lines)]
         ELSE [size |-> ShrinkSearch(<<text>>, max_width, base_size, min_size, f),
               second |-> LinesValue(<<text>>)]

(* ------------------------- Python values ------------------------------- *)
\* what a call produces: a returned value or a raised exception
Ok(v) == [tag |-> "ok", value |-> v, exc |-> "none"]
Raise(e) == [tag |-> "raise", value |-> <<>>, exc |-> e]

\* Dictionary keys are integers or strings; 1 and "1" are different keys.
IntKey(n) == [kind |-> "int", n |-> n, s |-> <<>>]
StrKey(s) == [kind |-> "str", n |-> 0, s |-> s]

DigitChars == <<"0", "1", "2", "3", "4", "5", "6", "7", "8", "9">>

IsDigit(c) == \E d \in 1..10 : DigitChars[d] = c

DigitValue(c) == (CHOOSE d \in 1..10 : DigitChars[d] = c) - 1

\* str(n) for an integer n >= 0: its decimal digits
RECURSIVE Str(_)
Str(n) ==
    IF n < 10 THEN <<DigitChars[n + 1]>>
    ELSE Append(Str(n \div 10), DigitChars[(n % 10) + 1])

\* int(s) succeeds on a non-empty string of decimal digits
IsDigitString(s) == s # <<>> /\ \A i \in 1..Len(s) : IsDigit(s[i])

RECURSIVE ParseDigits(_)
ParseDigits(s) ==
    IF s = <<>> THEN 0
    ELSE 10 * ParseDigits(SubSeq(s, 1, Len(s) - 1)) + DigitValue(s[Len(s)])

\* int(k) raises ValueError unless the key is an integer or a digit string
IntCoercible(k) == k.kind = "int" \/ IsDigitString(k.s)

ToInt(k) == IF k.kind = "int" THEN k.n ELSE ParseDigits(k.s)

\* A dict is the sequence of its (key, value) items in insertion order,
\* with pairwise different keys.
DictHas(d, k) == \E i \in 1..Len(d) : d[i][1] = k

DictGet(d, k) == d[CHOOSE i \in 1..Len(d) : d[i][1] = k][2]

\* d[k] = v: an existing key keeps its position and takes the new value
DictSet(d, k, v) ==
    IF DictHas(d, k)
    THEN [i \in 1..Len(d) |-> IF d[i][1] = k THEN <<k, v>> ELSE d[i]]
    ELSE Append(d, <<k, v>>)

(* ------------------------- schedule normalizer ------------------------- *)
\* {int(k): v for k, v in classes.items()}
RECURSIVE IntKeyed(_)
IntKeyed(items) ==
    IF items = <<>> THEN <<>>
    ELSE LET last == items[Len(items)]
         IN  DictSet(IntKeyed(SubSeq(items, 1, Len(items) - 1)), IntKey(ToInt(last[1])), last[2])

\* sorted(d.items()): insertion sort on the integer key
RECURSIVE InsertByKey(_, _)
InsertByKey(sorted, item) ==
    IF sorted = <<>> THEN <<item>>
    ELSE IF item[1].n < Head(sorted)[1].n THEN <<item>> \o sorted
    ELSE <<Head(sorted)>> \o InsertByKey(Tail(sorted), item)

RECURSIVE SortedItems(_)
SortedItems(items) ==
    IF items = <<>> THEN <<>>
    ELSE InsertByKey(SortedItems(SubSeq(items, 1, Len(items) - 1)), items[Len(items)])

\* normalize_classes returning the int-keyed dict without sorting it
normalize_classes_unsorted(classes) ==
    IF \E i \in 1..Len(classes) : ~IntCoercible(classes[i][1])
    THEN Raise("ValueError")
    ELSE Ok(IntKeyed(classes))

\* normalize_classes dropping the keys int() rejects instead of raising
normalize_classes_skip_bad(classes) ==
    Ok(SortedItems(IntKeyed(SelectSeq(classes, LAMBDA it : IntCoercible(it[1])))))

\* the normalizer answering None to a key that is no number, as its callers
\* test for
normalize_classes_none_on_bad_key(classes) ==
    IF \E i \in 1..Len(classes) : ~IntCoercible(classes[i][1])
    THEN [tag |-> "None", value |-> <<>>, exc |-> "none"]
    ELSE Ok(SortedItems(IntKeyed(classes)))

normalize_classes(classes) ==
    IF \E i \in 1..Len(classes) : ~IntCoercible(classes[i][1])
    THEN Raise("ValueError")
    ELSE Ok(SortedItems(IntKeyed(classes)))

(* --------------------------- layout constants -------------------------- *)
OTHER_HEIGHT == 140
CLASS_HEIGHT == 250
BREAK_HEIGHT == 80
TITLE_HEIGHT == 100
WIDTH == 450
XDAY_GAP == 65
START_X == 200
START_Y == 200
MAIN_OFFSET_X == XDAY_GAP + (WIDTH * 2)
MAIN_OFFSET_Y == TITLE_HEIGHT
\* the times column put right where the X-day column ends
TIMES_OFFSET_X_no_gap == WIDTH

TIMES_OFFSET_X == XDAY_GAP + WIDTH
TIMES_OFFSET_Y == TITLE_HEIGHT
XDAY_OFFSET_X == 0
XDAY_OFFSET_Y == TITLE_HEIGHT
STROKE_WIDTH == 4
BASE_CLASS_TEXT_SIZE == 50
BASE_OTHER_TEXT_SIZE == 40
BASE_TIMES_TEXT_SIZE == 45
BASE_TITLE_TEXT_SIZE == 150
BASE_DAY_NUMBERS_TEXT_SIZE == 100
BASE_ROOM_SIZE == 30
DEFAULT_MIN_SIZE == 8
MAIN_FONT_FAMILY == "Inter"
TITLE_FONT_FAMILY == "Jomhuria"

CLASS_COLORS ==
    <<"#91DCFA", "#FEF59C", "#FFC4E7", "#E3B5FB", "#FF9795", "#A7F0D6", "#FDC688", "#CCCCCC">>

FULL_WIDTH == WIDTH * 6 + XDAY_GAP
CANVAS_WIDTH == START_X * 2 + FULL_WIDTH
CANVAS_HEIGHT ==
    START_Y * 2 + (MAIN_OFFSET_Y + OTHER_HEIGHT * 3 + CLASS_HEIGHT * 4 + BREAK_HEIGHT * 2)

\* Coordinates are fixed-point numbers, Scale units to the pixel, so that
\* the halves, hundredths and eighths of the layout arithmetic are exact.
Scale == 8 * 100

FX(n) == n * Scale

\* v * (h / 100) for a fixed-point v
Frac(v, h) == (v * h) \div 100

\* the derivation of XDAY_CLASS_HEIGHT taking out two break bands instead
\* of three
xday_class_height_two_breaks(other_height, class_height, break_height) ==
    (((other_height * 3 + class_height * 4 + break_height * 2) - (2 * break_height)
        - (2 * other_height)) * Scale) \div 8

\* the derivation of XDAY_CLASS_HEIGHT from the three band heights; a float
\* in the program, in fixed point here
xday_class_height(other_height, class_height, break_height) ==
    (((other_height * 3 + class_height * 4 + break_height * 2) - (3 * break_height)
        - (2 * other_height)) * Scale) \div 8

XDAY_CLASS_HEIGHT == xday_class_height(OTHER_HEIGHT, CLASS_HEIGHT, BREAK_HEIGHT)

\* the characters the Inter font is asked to measure
GlyphChars ==
    Chars \cup {DigitChars[d] : d \in 1..10}
    \cup {"F", "R", "S", "T", "a", "d", "i", "n", "o", "s", "t", "u"}
    \cup {"(", ")", ">", "H", "P", "e", "f", "r", "y"}

\* FONT_INTER_BASE64, the default font of fit_text_to_width: every glyph one
\* font size wide
FONT_INTER_BASE64 == [c \in GlyphChars |-> 1]

(* ----------------------------- elements -------------------------------- *)
Rect(x, y, width, height, fill, stroke) ==
    [type |-> "rect", x |-> x, y |-> y, width |-> width, height |-> height,
     fill |-> fill, stroke |-> stroke, text |-> <<>>, font_size |-> 0, font_family |-> ""]

Text(text, x, y, font_size, font_family, fill) ==
    [type |-> "text", x |-> x, y |-> y, width |-> 0, height |-> 0,
     fill |-> fill, stroke |-> "", text |-> text, font_size |-> font_size,
     font_family |-> font_family]

\* a bordered band of the grid
Band(x, y, width, height, fill) == Rect(x, y, width, height, fill, "black")

\* a centred run of the main font in the default colour
Label(text, x, y, font_size) == Text(text, x, y, font_size, MAIN_FONT_FAMILY, "")

(* ---------------------------- day column ------------------------------- *)
\* offsets of the four class bands and of the footer below the origin
DayBandTop ==
    <<OTHER_HEIGHT,
      OTHER_HEIGHT + CLASS_HEIGHT + BREAK_HEIGHT,
      (OTHER_HEIGHT * 2) + (CLASS_HEIGHT * 2) + BREAK_HEIGHT,
      (OTHER_HEIGHT * 2) + (CLASS_HEIGHT * 3) + (BREAK_HEIGHT * 2)>>

\* the footer put one break band too high
DayFooterTop_one_break == (OTHER_HEIGHT * 2) + (CLASS_HEIGHT * 4) + BREAK_HEIGHT

DayFooterTop == (OTHER_HEIGHT * 2) + (CLASS_HEIGHT * 4) + (BREAK_HEIGHT * 2)

\* the day column without its fourth class band
DayRects_three_bands(x, y, daily_classes) ==
    [i \in 1..3 |-> Band(FX(x), FX(y + DayBandTop[i]), FX(WIDTH), FX(CLASS_HEIGHT),
                         CLASS_COLORS[daily_classes[i]])]
    \o <<Band(FX(x), FX(y + DayFooterTop), FX(WIDTH), FX(OTHER_HEIGHT), "#FFFFFF")>>

\* the class bands coloured by their slot in the column, not by the period
DayRects_slot_colours(x, y, daily_classes) ==
    [i \in 1..4 |-> Band(FX(x), FX(y + DayBandTop[i]), FX(WIDTH), FX(CLASS_HEIGHT),
                         CLASS_COLORS[i])]
    \o <<Band(FX(x), FX(y + DayFooterTop), FX(WIDTH), FX(OTHER_HEIGHT), "#FFFFFF")>>

DayRects(x, y, daily_classes) ==
    [i \in 1..4 |-> Band(FX(x), FX(y + DayBandTop[i]), FX(WIDTH), FX(CLASS_HEIGHT),
                         CLASS_COLORS[daily_classes[i]])]
    \o <<Band(FX(x), FX(y + DayFooterTop), FX(WIDTH), FX(OTHER_HEIGHT), "#FFFFFF")>>

\* the key the room and teacher tables are subscripted with, taken to be
\* the period number itself
AuxKey_period_itself(period) == IntKey(period)

\* str(daily_classes[i]), the key the room and teacher tables are
\* subscripted with
AuxKey(period) == StrKey(Str(period))

\* the label, room and teacher runs of the i-th band; every lookup succeeds
DaySlotTexts(x, y, i, daily_classes, classes, rooms, teachers) ==
    LET period == daily_classes[i]
        text_content == DictGet(classes, IntKey(period))
        font_size == fit_text_to_width(text_content, WIDTH - 20, BASE_CLASS_TEXT_SIZE,
                                       DEFAULT_MIN_SIZE, FONT_INTER_BASE64, TRUE)
        cx == FX(x) + Frac(FX(WIDTH), 50)
        top == FX(y + DayBandTop[i])
        label ==
            IF Len(font_size.second.lines) = 2
            THEN <<Label(font_size.second.lines[1], cx, top + Frac(FX(CLASS_HEIGHT), 35),
                         font_size.size),
                   Label(font_size.second.lines[2], cx, top + Frac(FX(CLASS_HEIGHT), 60),
                         font_size.size)>>
            ELSE <<Label(text_content, cx, top + Frac(FX(CLASS_HEIGHT), 50), font_size.size)>>
    IN  label
        \o <<Label(DictGet(rooms, AuxKey(period)), cx,
                   top + Frac(FX(CLASS_HEIGHT), 85), BASE_ROOM_SIZE),
             Label(DictGet(teachers, AuxKey(period)), cx,
                   top + Frac(FX(CLASS_HEIGHT), 15), BASE_ROOM_SIZE)>>

\* classes[p], rooms[str(p)] and teachers[str(p)] raise KeyError on a
\* missing key
draw_day(x, y, daily_classes, classes, rooms, teachers) ==
    IF \E i \in 1..4 :
           \/ ~DictHas(classes, IntKey(daily_classes[i]))
           \/ ~DictHas(rooms, AuxKey(daily_classes[i]))
           \/ ~DictHas(teachers, AuxKey(daily_classes[i]))
    THEN Raise("KeyError")
    ELSE Ok(DayRects(x, y, daily_classes)
            \o DaySlotTexts(x, y, 1, daily_classes, classes, rooms, teachers)
            \o DaySlotTexts(x, y, 2, daily_classes, classes, rooms, teachers)
            \o DaySlotTexts(x, y, 3, daily_classes, classes, rooms, teachers)
            \o DaySlotTexts(x, y, 4, daily_classes, classes, rooms, teachers))

(* ------------------------- shared cross-day bands ---------------------- *)
draw_sames(x, y) ==
    LET other(t, cx, cy) == Label(t, cx, cy, BASE_OTHER_TEXT_SIZE)
        footer == FX(y + (OTHER_HEIGHT * 2) + (CLASS_HEIGHT * 4) + (BREAK_HEIGHT * 2))
    IN  <<Band(FX(x), FX(y), FX(WIDTH * 2), FX(OTHER_HEIGHT), "#AB91FA"),
          Band(FX(x + WIDTH * 2), FX(y), FX(WIDTH), FX(OTHER_HEIGHT), "#AB91FA"),
          Band(FX(x + WIDTH * 3), FX(y), FX(WIDTH), FX(OTHER_HEIGHT), "#AB91FA"),
          Band(FX(x), FX(y + OTHER_HEIGHT + CLASS_HEIGHT), FX(WIDTH * 4), FX(BREAK_HEIGHT),
               "#00B6FF"),
          Band(FX(x), FX(y + OTHER_HEIGHT + (CLASS_HEIGHT * 2) + BREAK_HEIGHT), FX(WIDTH * 4),
               FX(OTHER_HEIGHT), "#A8FA91"),
          Band(FX(x), FX(y + (OTHER_HEIGHT * 2) + (CLASS_HEIGHT * 3) + BREAK_HEIGHT),
               FX(WIDTH * 4), FX(BREAK_HEIGHT), "#00B6FF"),
          other(<<"O", "f", "f", "i", "c", "e", " ", "H", "o", "u", "r", "s">>,
                FX(x + WIDTH), FX(y) + Frac(FX(OTHER_HEIGHT), 50)),
          other(<<"F", "a", "c", "u", "l", "t", "y", " ", "M", "e", "e", "t", "i", "n", "g">>,
                FX(x) + Frac(FX(WIDTH), 250),
                FX(y) + Frac(FX(OTHER_HEIGHT), 50)),
          other(<<"O", "f", "f", "i", "c", "e", " ", "H", "o", "u", "r", "s">>,
                FX(x) + Frac(FX(WIDTH), 350),
                FX(y) + Frac(FX(OTHER_HEIGHT), 50)),
          other(<<"B", "r", "e", "a", "k">>, FX(x + WIDTH * 2),
                FX(y + OTHER_HEIGHT + CLASS_HEIGHT) + Frac(FX(BREAK_HEIGHT), 50)),
          Label(<<"L", "u", "n", "c", "h">>, FX(x + WIDTH * 2),
                FX(y + OTHER_HEIGHT + (CLASS_HEIGHT * 2) + BREAK_HEIGHT)
                    + Frac(FX(OTHER_HEIGHT), 50),
                BASE_CLASS_TEXT_SIZE),
          other(<<"B", "r", "e", "a", "k">>, FX(x + WIDTH * 2),
                FX(y + (OTHER_HEIGHT * 2) + (CLASS_HEIGHT * 3) + BREAK_HEIGHT)
                    + Frac(FX(BREAK_HEIGHT), 50)),
          other(<<"F", "l", "e", "x", " ", "1", " ", "o", "r", " ", "F", "l", "e", "x", " ", "3">>,
                FX(x) + Frac(FX(WIDTH), 50),
                footer + Frac(FX(OTHER_HEIGHT), 35)),
          other(<<"A", "d", "v", "i", "s", "o", "r", "y">>, FX(x) + Frac(FX(WIDTH), 150),
                footer + Frac(FX(OTHER_HEIGHT), 35)),
          other(<<"F", "l", "e", "x", " ", "2", " ", "o", "r", " ", "F", "l", "e", "x", " ", "4">>,
                FX(x) + Frac(FX(WIDTH), 250),
                footer + Frac(FX(OTHER_HEIGHT), 35)),
          other(<<"A", "s", "s", "e", "m", "b", "l", "y">>, FX(x) + Frac(FX(WIDTH), 350),
                footer + Frac(FX(OTHER_HEIGHT), 35)),
          other(<<"a", "n", "d", " ", "o", "r", " ", "o", "f", "f", "i", "c", "e", " ", "h",
                  "o", "u", "r", "s">>,
                FX(x) + Frac(FX(WIDTH), 50),
                footer + Frac(FX(OTHER_HEIGHT), 65)),
          other(<<"a", "n", "d", " ", "o", "r", " ", "o", "f", "f", "i", "c", "e", " ", "h",
                  "o", "u", "r", "s">>,
                FX(x) + Frac(FX(WIDTH), 150),
                footer + Frac(FX(OTHER_HEIGHT), 65)),
          other(<<"a", "n", "d", " ", "o", "r", " ", "o", "f", "f", "i", "c", "e", " ", "h",
                  "o", "u", "r", "s">>,
                FX(x) + Frac(FX(WIDTH), 250),
                footer + Frac(FX(OTHER_HEIGHT), 65)),
          other(<<"a", "n", "d", " ", "o", "r", " ", "o", "f", "f", "i", "c", "e", " ", "h",
                  "o", "u", "r", "s">>,
                FX(x) + Frac(FX(WIDTH), 350),
                footer + Frac(FX(OTHER_HEIGHT), 65))>>

(* ----------------------------- times column ---------------------------- *)
\* offsets and heights of the gray bands, top to bottom
TimesBandTop ==
    <<0,
      OTHER_HEIGHT,
      OTHER_HEIGHT + CLASS_HEIGHT,
      OTHER_HEIGHT + CLASS_HEIGHT + BREAK_HEIGHT,
      OTHER_HEIGHT + (CLASS_HEIGHT * 2) + BREAK_HEIGHT,
      (OTHER_HEIGHT * 2) + (CLASS_HEIGHT * 2) + BREAK_HEIGHT,
      (OTHER_HEIGHT * 2) + (CLASS_HEIGHT * 3) + BREAK_HEIGHT,
      (OTHER_HEIGHT * 2) + (CLASS_HEIGHT * 3) + (BREAK_HEIGHT * 2),
      (OTHER_HEIGHT * 2) + (CLASS_HEIGHT * 4) + (BREAK_HEIGHT * 2)>>

TimesBandHeight ==
    <<OTHER_HEIGHT, CLASS_HEIGHT, BREAK_HEIGHT, CLASS_HEIGHT, OTHER_HEIGHT, CLASS_HEIGHT,
      BREAK_HEIGHT, CLASS_HEIGHT, OTHER_HEIGHT>>

TimesLabels ==
    <<<<"7", ":", "5", "0", " ", "-", " ", "8", ":", "2", "0", " ", "a", ".", "m", ".">>,
      <<"8", ":", "3", "0", " ", "-", " ", "9", ":", "4", "5", " ", "a", ".", "m", ".">>,
      <<"9", ":", "4", "5", " ", "-", " ", "9", ":", "5", "5", " ", "a", ".", "m", ".">>,
      <<"9", ":", "5", "5", " ", "-", " ", "1", "1", ":", "1", "0", " ", "a", ".", "m", ".">>,
      <<"1", "1", ":", "1", "0", " ", "-", " ", "1", "1", ":", "5", "0", " ", "a", ".", "m", ".">>,
      <<"1", "1", ":", "5", "0", " ", "a", ".", "m", ".", " ", "-", " ", "1", ":", "0", "5",
          " ", "p", ".", "m", ".">>,
      <<"1", ":", "0", "5", " ", "-", " ", "1", ":", "1", "5", " ", "p", ".", "m", ".">>,
      <<"1", ":", "1", "5", " ", "-", " ", "2", ":", "3", "0", " ", "p", ".", "m", ".">>,
      <<"2", ":", "3", "0", " ", "-", " ", "3", ":", "1", "5", " ", "p", ".", "m", ".">>>>

\* the times column without its last band and label
draw_times_eight(x, y) ==
    [i \in 1..8 |-> Band(FX(x), FX(y + TimesBandTop[i]), FX(WIDTH), FX(TimesBandHeight[i]),
                         "#888888")]
    \o [i \in 1..8 |-> Text(TimesLabels[i], FX(x) + Frac(FX(WIDTH), 50),
                            FX(y + TimesBandTop[i]) + Frac(FX(TimesBandHeight[i]), 50),
                            BASE_TIMES_TEXT_SIZE, MAIN_FONT_FAMILY, "#FFFFFF")]

draw_times(x, y) ==
    [i \in 1..9 |-> Band(FX(x), FX(y + TimesBandTop[i]), FX(WIDTH), FX(TimesBandHeight[i]),
                         "#888888")]
    \o [i \in 1..9 |-> Text(TimesLabels[i], FX(x) + Frac(FX(WIDTH), 50),
                            FX(y + TimesBandTop[i]) + Frac(FX(TimesBandHeight[i]), 50),
                            BASE_TIMES_TEXT_SIZE, MAIN_FONT_FAMILY, "#FFFFFF")]

(* ------------------------------ X-day column --------------------------- *)
\* 'Foundations' in text
RECURSIVE Contains(_, _)
Contains(text, sub) ==
    IF Len(text) < Len(sub) THEN FALSE
    ELSE IF SubSeq(text, 1, Len(sub)) = sub THEN TRUE
    ELSE Contains(Tail(text), sub)

Foundations == <<"F", "o", "u", "n", "d", "a", "t", "i", "o", "n", "s">>

\* the substitution made only for a label that is the word itself
XDayClasses_whole_label(classes, free_period_name) ==
    [i \in 1..Len(classes) |->
        <<classes[i][1],
          IF classes[i][2] = Foundations THEN free_period_name ELSE classes[i][2]>>]

\* {k: (free_period_name if 'Foundations' in str(v) else v) for k, v in classes.items()}
XDayClasses(classes, free_period_name) ==
    [i \in 1..Len(classes) |->
        <<classes[i][1],
          IF Contains(classes[i][2], Foundations) THEN free_period_name ELSE classes[i][2]>>]

\* the caller's table after a call with the substitution made in place,
\* in the dict that was passed
caller_classes_in_place(classes, free_period_name) ==
    XDayClasses(classes, free_period_name)

\* the caller's table after a call: line 902 binds the substituted dict to
\* the local name classes and leaves the dict that was passed as it was
caller_classes(classes, free_period_name) == classes

\* offsets, in fixed point, of the bands of the X-day column below the
\* origin: XDayClassTop[p] for the class band of period p
XDayClassTop ==
    <<FX(OTHER_HEIGHT),
      FX(OTHER_HEIGHT) + XDAY_CLASS_HEIGHT,
      FX(OTHER_HEIGHT) + (XDAY_CLASS_HEIGHT * 2) + FX(BREAK_HEIGHT),
      FX(OTHER_HEIGHT) + (XDAY_CLASS_HEIGHT * 3) + FX(BREAK_HEIGHT),
      FX(OTHER_HEIGHT) + (XDAY_CLASS_HEIGHT * 4) + FX(BREAK_HEIGHT * 2),
      FX(OTHER_HEIGHT * 2) + (XDAY_CLASS_HEIGHT * 5) + FX(BREAK_HEIGHT * 2),
      FX(OTHER_HEIGHT * 2) + (XDAY_CLASS_HEIGHT * 6) + FX(BREAK_HEIGHT * 2),
      FX(OTHER_HEIGHT * 2) + (XDAY_CLASS_HEIGHT * 7) + FX(BREAK_HEIGHT * 3)>>

XDayBreakTop ==
    <<FX(OTHER_HEIGHT) + (XDAY_CLASS_HEIGHT * 2),
      FX(OTHER_HEIGHT) + (XDAY_CLASS_HEIGHT * 4) + FX(BREAK_HEIGHT),
      FX(OTHER_HEIGHT * 2) + (XDAY_CLASS_HEIGHT * 7) + FX(BREAK_HEIGHT * 2)>>

XDayLunchTop == FX(OTHER_HEIGHT) + (XDAY_CLASS_HEIGHT * 5) + FX(BREAK_HEIGHT * 2)

XDayTimes ==
    <<<<"8", ":", "3", "0", " ", "-", " ", "9", ":", "1", "0", " ", "a", ".", "m", ".">>,
      <<"9", ":", "1", "5", " ", "-", " ", "9", ":", "5", "5", " ", "a", ".", "m", ".">>,
      <<"1", "0", ":", "0", "5", " ", "-", " ", "1", "0", ":", "4", "5", " ", "a", ".", "m", ".">>,
      <<"1", "0", ":", "5", "0", " ", "-", " ", "1", "1", ":", "3", "0", " ", "a", ".", "m", ".">>,
      <<"1", "1", ":", "4", "0", " ", "a", ".", "m", ".", " ", "-", " ", "1", "2", ":", "2",
          "0", " ", "p", ".", "m", ".">>,
      <<"1", ":", "0", "0", " ", "-", " ", "1", ":", "4", "0", " ", "p", ".", "m", ".">>,
      <<"1", ":", "4", "5", " ", "-", " ", "2", ":", "2", "5", " ", "p", ".", "m", ".">>,
      <<"2", ":", "3", "5", " ", "-", " ", "3", ":", "1", "5", " ", "p", ".", "m", ".">>>>

XDayBreakLabels ==
    <<<<"B", "r", "e", "a", "k", " ", "9", ":", "5", "5", " ", "-", " ", "1", "0", ":", "0",
        "5", " ", "a", ".", "m", ".">>,
      <<"B", "r", "e", "a", "k", " ", "1", "1", ":", "3", "0", " ", "-", " ", "1", "1", ":",
          "4", "0", " ", "a", ".", "m", ".">>,
      <<"B", "r", "e", "a", "k", " ", "2", ":", "2", "5", " ", "-", " ", "2", ":", "3", "5",
          " ", "p", ".", "m", ".">>>>

\* the X-day column drawn without its third break band
XDayRects_two_breaks(x, y) ==
    LET class(p) == Band(FX(x), FX(y) + XDayClassTop[p], FX(WIDTH), XDAY_CLASS_HEIGHT,
                         CLASS_COLORS[p])
        break(b) == Band(FX(x), FX(y) + XDayBreakTop[b], FX(WIDTH), FX(BREAK_HEIGHT),
                         "#00B6FF")
    IN  <<Band(FX(x), FX(y), FX(WIDTH), FX(OTHER_HEIGHT), "#AB91FA"),
          class(1), class(2), break(1), class(3), class(4), break(2), class(5),
          Band(FX(x), FX(y) + XDayLunchTop, FX(WIDTH), FX(OTHER_HEIGHT), "#A8FA91"),
          class(6), class(7), class(8)>>

XDayRects(x, y) ==
    LET class(p) == Band(FX(x), FX(y) + XDayClassTop[p], FX(WIDTH), XDAY_CLASS_HEIGHT,
                         CLASS_COLORS[p])
        break(b) == Band(FX(x), FX(y) + XDayBreakTop[b], FX(WIDTH), FX(BREAK_HEIGHT),
                         "#00B6FF")
    IN  <<Band(FX(x), FX(y), FX(WIDTH), FX(OTHER_HEIGHT), "#AB91FA"),
          class(1), class(2), break(1), class(3), class(4), break(2), class(5),
          Band(FX(x), FX(y) + XDayLunchTop, FX(WIDTH), FX(OTHER_HEIGHT), "#A8FA91"),
          class(6), class(7), break(3), class(8)>>

\* the bands with the last break drawn where the last class band is
xday_bands_last_break_low(y, other_height, break_height, xday_height) ==
    LET band(top, height) == [y |-> FX(y) + top, height |-> height]
        o == FX(other_height)
        b == FX(break_height)
        c == xday_height
    IN  <<band(0, o),
          band(o, c),
          band(o + c, c),
          band(o + (c * 2), b),
          band(o + (c * 2) + b, c),
          band(o + (c * 3) + b, c),
          band(o + (c * 4) + b, b),
          band(o + (c * 4) + (b * 2), c),
          band(o + (c * 5) + (b * 2), o),
          band((o * 2) + (c * 5) + (b * 2), c),
          band((o * 2) + (c * 6) + (b * 2), c),
          band((o * 2) + (c * 7) + (b * 3), b),
          band((o * 2) + (c * 7) + (b * 3), c)>>

\* the tops and heights of the 13 rectangles of draw_xday, in emission order,
\* in a module whose band heights are the given ones
xday_bands(y, other_height, break_height, xday_height) ==
    LET band(top, height) == [y |-> FX(y) + top, height |-> height]
        o == FX(other_height)
        b == FX(break_height)
        c == xday_height
    IN  <<band(0, o),
          band(o, c),
          band(o + c, c),
          band(o + (c * 2), b),
          band(o + (c * 2) + b, c),
          band(o + (c * 3) + b, c),
          band(o + (c * 4) + b, b),
          band(o + (c * 4) + (b * 2), c),
          band(o + (c * 5) + (b * 2), o),
          band((o * 2) + (c * 5) + (b * 2), c),
          band((o * 2) + (c * 6) + (b * 2), c),
          band((o * 2) + (c * 7) + (b * 2), b),
          band((o * 2) + (c * 7) + (b * 3), c)>>

\* the text runs of the X-day column; every period 1..8 has a label
XDayTexts(x, y, classes) ==
    LET cx == FX(x) + Frac(FX(WIDTH), 50)
        name(p) ==
            Label(DictGet(classes, IntKey(p)), cx,
                  FX(y) + XDayClassTop[p] + Frac(XDAY_CLASS_HEIGHT, 30),
                  fit_text_to_width(DictGet(classes, IntKey(p)), WIDTH - 20,
                                    BASE_CLASS_TEXT_SIZE, DEFAULT_MIN_SIZE,
                                    FONT_INTER_BASE64, FALSE).size)
        time(p) ==
            Label(XDayTimes[p], cx, FX(y) + XDayClassTop[p] + Frac(XDAY_CLASS_HEIGHT, 70),
                  BASE_OTHER_TEXT_SIZE)
        break(b) ==
            Label(XDayBreakLabels[b], cx, FX(y) + XDayBreakTop[b] + Frac(FX(BREAK_HEIGHT), 50),
                  BASE_OTHER_TEXT_SIZE)
    IN  <<Label(<<"O", "f", "f", "i", "c", "e", " ", "H", "o", "u", "r", "s">>,
          cx, FX(y) + Frac(FX(OTHER_HEIGHT), 50),
                BASE_OTHER_TEXT_SIZE),
          name(1), time(1), name(2), time(2), break(1),
          name(3), time(3), name(4), time(4), break(2),
          name(5), time(5),
          Label(<<"L", "u", "n", "c", "h">>, cx, FX(y) + XDayLunchTop + Frac(FX(OTHER_HEIGHT), 30),
                BASE_CLASS_TEXT_SIZE),
          Label(<<"1", "2", ":", "2", "0", " ", "-", " ", "1", ":", "0", "0", " ", "p", ".",
                  "m", ".">>,
                cx, FX(y) + XDayLunchTop + Frac(FX(OTHER_HEIGHT), 70),
                BASE_OTHER_TEXT_SIZE),
          name(6), time(6), name(7), time(7), break(3), name(8), time(8)>>

\* classes[1] .. classes[8] raise KeyError on a missing key
draw_xday(x, y, classes, free_period_name) ==
    LET substituted == XDayClasses(classes, free_period_name)
    IN  IF \E p \in 1..8 : ~DictHas(substituted, IntKey(p))
        THEN Raise("KeyError")
        ELSE Ok(XDayRects(x, y) \o XDayTexts(x, y, substituted))

(* ------------------------------ title band ----------------------------- *)
\* the title band with the background rectangle emitted after its labels
draw_titles_background_last(title) ==
    LET day(t, cx) ==
            Text(t, cx, Frac(FX(START_Y + MAIN_OFFSET_Y), 85), BASE_DAY_NUMBERS_TEXT_SIZE,
                 TITLE_FONT_FAMILY, "")
    IN  <<Text(title, Frac(FX(CANVAS_WIDTH), 50),
               Frac(Frac(FX(START_Y + MAIN_OFFSET_Y), 85), 50),
               BASE_TITLE_TEXT_SIZE, TITLE_FONT_FAMILY, ""),
          day(<<"X", " ", "D", "a", "y">>, FX(START_X) + Frac(FX(WIDTH), 50)),
          day(<<"D", "a", "y", " ", "1">>, FX(START_X + MAIN_OFFSET_X) + Frac(FX(WIDTH), 50)),
          day(<<"D", "a", "y", " ", "2">>, FX(START_X + MAIN_OFFSET_X) + Frac(FX(WIDTH), 150)),
          day(<<"D", "a", "y", " ", "3">>, FX(START_X + MAIN_OFFSET_X) + Frac(FX(WIDTH), 250)),
          day(<<"D", "a", "y", " ", "4">>, FX(START_X + MAIN_OFFSET_X) + Frac(FX(WIDTH), 350)),
          Rect(0, 0, FX(CANVAS_WIDTH), FX(CANVAS_HEIGHT), "#FFFFFF", "")>>

draw_titles(title) ==
    LET day(t, cx) ==
            Text(t, cx, Frac(FX(START_Y + MAIN_OFFSET_Y), 85), BASE_DAY_NUMBERS_TEXT_SIZE,
                 TITLE_FONT_FAMILY, "")
    IN  <<Rect(0, 0, FX(CANVAS_WIDTH), FX(CANVAS_HEIGHT), "#FFFFFF", ""),
          Text(title, Frac(FX(CANVAS_WIDTH), 50),
               Frac(Frac(FX(START_Y + MAIN_OFFSET_Y), 85), 50),
               BASE_TITLE_TEXT_SIZE, TITLE_FONT_FAMILY, ""),
          day(<<"X", " ", "D", "a", "y">>, FX(START_X) + Frac(FX(WIDTH), 50)),
          day(<<"D", "a", "y", " ", "1">>, FX(START_X + MAIN_OFFSET_X) + Frac(FX(WIDTH), 50)),
          day(<<"D", "a", "y", " ", "2">>, FX(START_X + MAIN_OFFSET_X) + Frac(FX(WIDTH), 150)),
          day(<<"D", "a", "y", " ", "3">>, FX(START_X + MAIN_OFFSET_X) + Frac(FX(WIDTH), 250)),
          day(<<"D", "a", "y", " ", "4">>, FX(START_X + MAIN_OFFSET_X) + Frac(FX(WIDTH), 350))>>

(* ------------------------------ serializer ----------------------------- *)
\* str(canvas), line 1288, is the serialization of the svg package: an
\* element is written <name attr="value" ...> with its text or its children
\* and a closing tag, or <name attr="value" .../> when it has neither; the
\* text is written as it is.
\* A serialized document is the sequence of its pieces: a piece is one
\* character, or a run of markup characters none of which is '>'.  Every
\* character of a text the caller supplied is a piece of its own.

\* the digits of num / den after the decimal point, for 0 <= num < den
RECURSIVE FracDigits(_, _)
FracDigits(num, den) ==
    IF num = 0 THEN <<>>
    ELSE <<DigitChars[((num * 10) \div den) + 1]>> \o FracDigits((num * 10) % den, den)

\* str() of a coordinate >= 0 held in fixed point (an integral float prints
\* a trailing ".0" that the fixed-point value does not record)
Decimal(v) ==
    IF v % Scale = 0 THEN Str(v \div Scale)
    ELSE Str(v \div Scale) \o <<".">> \o FracDigits(v % Scale, Scale)

\* name="value"
Attr(name, value) == <<" ", name, "=", "\"">> \o value \o <<"\"">>

\* as_str() of one svg.Rect or svg.Text: a text element without text closes
\* itself like a rectangle
ElementStr(e) ==
    IF e.type = "rect"
    THEN <<"<", "rect">>
         \o Attr("x", Decimal(e.x)) \o Attr("y", Decimal(e.y))
         \o Attr("width", Decimal(e.width)) \o Attr("height", Decimal(e.height))
         \o (IF e.stroke = "" THEN <<>>
             ELSE Attr("stroke", <<e.stroke>>) \o Attr("stroke-width", Str(STROKE_WIDTH)))
         \o Attr("fill", <<e.fill>>)
         \o <<"/", ">">>
    ELSE <<"<", "text">>
         \o Attr("x", Decimal(e.x)) \o Attr("y", Decimal(e.y))
         \o Attr("text-anchor", <<"middle">>) \o Attr("dominant-baseline", <<"central">>)
         \o Attr("font-size", Str(e.font_size)) \o Attr("font-family", <<e.font_family>>)
         \o (IF e.fill = "" THEN <<>> ELSE Attr("fill", <<e.fill>>))
         \o (IF e.text = <<>> THEN <<"/", ">">>
             ELSE <<">">> \o e.text \o <<"<", "/", "text", ">">>)

\* "".join(as_str(e) for e in elements), halving the sequence
RECURSIVE ElementsStr(_)
ElementsStr(elements) ==
    IF elements = <<>> THEN <<>>
    ELSE IF Len(elements) = 1 THEN ElementStr(elements[1])
    ELSE LET half == Len(elements) \div 2
         IN  ElementsStr(SubSeq(elements, 1, half))
             \o ElementsStr(SubSeq(elements, half + 1, Len(elements)))

\* the opening tag of the root element, its closing '>' included
RootOpenTag(canvas) ==
    <<"<", "svg">>
    \o Attr("xmlns", <<"http://www.w3.org/2000/svg">>)
    \o Attr("viewBox", canvas.viewBox)
    \o Attr("width", canvas.width) \o Attr("height", canvas.height)
    \o Attr("preserveAspectRatio", <<canvas.preserveAspectRatio>>)
    \o <<">">>

\* str(canvas)
CanvasStr(canvas) ==
    RootOpenTag(canvas) \o ElementsStr(canvas.elements) \o <<"<", "/", "svg", ">">>

\* the style block with the two embedded fonts
FONT_STYLE ==
    <<"<", "style", ">", "\n",
      "@font-face { font-family: Jomhuria; src: url(data:font/ttf;base64,FONT_JOMHURIA_BASE64); }",
      "\n",
      "@font-face { font-family: Inter; src: url(data:font/ttf;base64,FONT_INTER_BASE64); }",
      "\n", "<", "/", "style", ">", "\n">>

\* s.replace(old, new) without a count: every occurrence of the character
RECURSIVE replace_every(_, _, _)
replace_every(s, old, new) ==
    IF s = <<>> THEN <<>>
    ELSE IF Len(s) = 1 THEN (IF s[1] = old THEN new ELSE s)
    ELSE LET half == Len(s) \div 2
         IN  replace_every(SubSeq(s, 1, half), old, new)
             \o replace_every(SubSeq(s, half + 1, Len(s)), old, new)

\* s.replace(old, new, 1) for a one-character old: the first occurrence only
replace_first(s, old, new) ==
    LET hits == {i \in 1..Len(s) : s[i] = old}
    IN  IF hits = {} THEN s
        ELSE LET first == CHOOSE i \in hits : \A k \in hits : i <= k
             IN  SubSeq(s, 1, first - 1) \o new \o SubSeq(s, first + 1, Len(s))

(* ---------------------------- canvas composer -------------------------- *)
\* the four fixed day patterns
DayPatterns == <<<<1, 3, 5, 7>>, <<2, 4, 6, 8>>, <<3, 1, 7, 5>>, <<4, 2, 8, 6>>>>

Percent100 == <<"1", "0", "0", "%">>

\* the canvas with the view-box shrunk to the percentages as well
SVG_viewbox_follows(elements, exact_dimension) ==
    [width |-> IF exact_dimension THEN Str(CANVAS_WIDTH) ELSE Percent100,
     height |-> IF exact_dimension THEN Str(CANVAS_HEIGHT) ELSE Percent100,
     preserveAspectRatio |-> "xMidYMid meet",
     viewBox |-> <<"0", " ", "0", " ">>
                 \o (IF exact_dimension THEN Str(CANVAS_WIDTH) ELSE Percent100) \o <<" ">>
                 \o (IF exact_dimension THEN Str(CANVAS_HEIGHT) ELSE Percent100),
     elements |-> elements]

\* svg.SVG(width=..., height=..., preserveAspectRatio=..., viewBox=..., elements=...)
SVG(elements, exact_dimension) ==
    [width |-> IF exact_dimension THEN Str(CANVAS_WIDTH) ELSE Percent100,
     height |-> IF exact_dimension THEN Str(CANVAS_HEIGHT) ELSE Percent100,
     preserveAspectRatio |-> "xMidYMid meet",
     viewBox |-> <<"0", " ", "0", " ">> \o Str(CANVAS_WIDTH) \o <<" ">> \o Str(CANVAS_HEIGHT),
     elements |-> elements]

\* What create_svg returns is the string str; the canvas it was serialized
\* from is kept beside it.
Document(canvas) ==
    [canvas |-> canvas,
     str |-> replace_first(CanvasStr(canvas), ">", <<">">> \o FONT_STYLE)]

\* create_svg with a column whose lookup fails left out of the document
create_svg_skip_failed(classes, rooms, teachers, title, free_period_name, exact_dimension) ==
    LET day(i) == draw_day(START_X + MAIN_OFFSET_X + WIDTH * (i - 1), START_Y + MAIN_OFFSET_Y,
                           DayPatterns[i], classes, rooms, teachers)
        xday == draw_xday(START_X + XDAY_OFFSET_X, START_Y + XDAY_OFFSET_Y, classes,
                          free_period_name)
        part(r) == IF r.tag = "raise" THEN <<>> ELSE r.value
    IN  Ok([canvas |->
                SVG(draw_titles(title)
                    \o part(day(1)) \o part(day(2)) \o part(day(3)) \o part(day(4))
                    \o draw_sames(START_X + MAIN_OFFSET_X, START_Y + MAIN_OFFSET_Y)
                    \o draw_times(START_X + TIMES_OFFSET_X, START_Y + TIMES_OFFSET_Y)
                    \o part(xday), exact_dimension),
            str |-> <<>>])

\* create_svg concatenating the sub-builders from left to right on the
\* canvas: X-day column, times column, day columns, shared bands, title band
create_svg_left_to_right(classes, rooms, teachers, title, free_period_name, exact_dimension) ==
    LET day(i) == draw_day(START_X + MAIN_OFFSET_X + WIDTH * (i - 1), START_Y + MAIN_OFFSET_Y,
                           DayPatterns[i], classes, rooms, teachers)
        xday == draw_xday(START_X + XDAY_OFFSET_X, START_Y + XDAY_OFFSET_Y, classes,
                          free_period_name)
    IN  IF \E i \in 1..4 : day(i).tag = "raise" THEN Raise("KeyError")
        ELSE IF xday.tag = "raise" THEN Raise("KeyError")
        ELSE Ok(Document(SVG(
                 xday.value
                 \o draw_times(START_X + TIMES_OFFSET_X, START_Y + TIMES_OFFSET_Y)
                 \o day(1).value \o day(2).value \o day(3).value \o day(4).value
                 \o draw_sames(START_X + MAIN_OFFSET_X, START_Y + MAIN_OFFSET_Y)
                 \o draw_titles(title), exact_dimension)))

\* The elements are concatenated in the order of line 1286; an exception of
\* a sub-builder propagates.
create_svg(classes, rooms, teachers, title, free_period_name, exact_dimension) ==
    LET day(i) == draw_day(START_X + MAIN_OFFSET_X + WIDTH * (i - 1), START_Y + MAIN_OFFSET_Y,
                           DayPatterns[i], classes, rooms, teachers)
        xday == draw_xday(START_X + XDAY_OFFSET_X, START_Y + XDAY_OFFSET_Y, classes,
                          free_period_name)
    IN  IF \E i \in 1..4 : day(i).tag = "raise" THEN Raise("KeyError")
        ELSE IF xday.tag = "raise" THEN Raise("KeyError")
        ELSE Ok(Document(SVG(
                 draw_titles(title)
                 \o day(1).value \o day(2).value \o day(3).value \o day(4).value
                 \o draw_sames(START_X + MAIN_OFFSET_X, START_Y + MAIN_OFFSET_Y)
                 \o draw_times(START_X + TIMES_OFFSET_X, START_Y + TIMES_OFFSET_Y)
                 \o xday.value, exact_dimension)))

(* --------------------------- format_schedule --------------------------- *)
\* a value that is None or a string; Absent is a key the event does not have
PyNone == [tag |-> "None", s |-> <<>>]
PyStr(s) == [tag |-> "str", s |-> s]
Absent == [tag |-> "absent", s |-> <<>>]

\* event.get(key, default) for the field the event holds under the key
EventGet(field, default) == IF field.tag = "absent" THEN default ELSE field

UpperLetters ==
    <<"A", "B", "C", "D", "E", "F", "G", "H", "I", "J", "K", "L", "M", "N", "O", "P", "Q",
      "R", "S", "T", "U", "V", "W", "X", "Y", "Z">>

LowerLetters ==
    <<"a", "b", "c", "d", "e", "f", "g", "h", "i", "j", "k", "l", "m", "n", "o", "p", "q",
      "r", "s", "t", "u", "v", "w", "x", "y", "z">>

\* s.lower()
Lower(s) ==
    [i \in 1..Len(s) |->
        IF \E n \in 1..Len(UpperLetters) : UpperLetters[n] = s[i]
        THEN LowerLetters[CHOOSE n \in 1..Len(UpperLetters) : UpperLetters[n] = s[i]]
        ELSE s[i]]

\* s.find(sub): the lowest 0-based index at which sub occurs in s, else -1
FindSub(s, sub) ==
    LET hits == {i \in 0..(Len(s) - Len(sub)) : SubSeq(s, i + 1, i + Len(sub)) = sub}
    IN  IF hits = {} THEN -1 ELSE CHOOSE i \in hits : \A j \in hits : i <= j

\* s.split()[0] for an s that is not all spaces
FirstWord(s) ==
    LET t == LStrip(s)
        n == Find(t, 0)
    IN  IF n = -1 THEN t ELSE Slice(t, 0, n)

NoneNone == [class_name |-> PyNone, period |-> PyNone]

parse_event_summary(summary) ==
    LET at == FindSub(summary, <<" ", "-", " ">>)
    IN  IF at = -1 THEN NoneNone
        ELSE
          LET original_class_name == Strip(Slice(summary, 0, at))
              details_part == Strip(Slice(summary, at + 3, Len(summary)))
              keyword == <<"b", "l", "o", "c", "k", " ">>
              found == FindSub(Lower(details_part), keyword)
          IN  IF found = -1 THEN NoneNone
              ELSE
                LET period_string_part ==
                        Strip(Slice(details_part, found + Len(keyword), Len(details_part)))
                IN  IF period_string_part = <<>> THEN NoneNone
                    ELSE IF ~IsDigitString(FirstWord(period_string_part)) THEN NoneNone
                    ELSE [class_name |->
                              PyStr(IF /\ Len(details_part) >= 2
                                       /\ IsDigit(details_part[1])
                                       /\ details_part[2] = "*"
                                    THEN Foundations ELSE original_class_name),
                          period |-> PyStr(FirstWord(period_string_part))]

format_room_name(location) ==
    LET location_str == Strip(IF location.tag = "str" THEN location.s ELSE <<>>)
    IN  IF IsDigitString(location_str) /\ Len(location_str) = 3
        THEN <<"U", "S", "Q", "u", "a", "d", " ">> \o location_str
        ELSE IF IsDigitString(location_str) /\ Len(location_str) = 2
        THEN <<"V", "A", "S", "C", " ">> \o location_str
        ELSE location_str

\* the entry of the period replaced by one holding this event alone
append_event_overwrite(schedule, period, class_name, room) ==
    DictSet(schedule, StrKey(period), [name |-> <<class_name>>, room |-> <<room>>])

\* the entry of the period created empty when missing, then the name and
\* the room appended to its two lists
append_event(schedule, period, class_name, room) ==
    LET created == IF DictHas(schedule, StrKey(period)) THEN schedule
                   ELSE DictSet(schedule, StrKey(period), [name |-> <<>>, room |-> <<>>])
        entry == DictGet(created, StrKey(period))
    IN  DictSet(created, StrKey(period),
                [name |-> Append(entry.name, class_name), room |-> Append(entry.room, room)])

\* the two results after the first n events of the list
RECURSIVE FormatEvents(_, _)
FormatEvents(events, n) ==
    IF n = 0 THEN [formatted_schedule |-> <<>>, unrecognized_events |-> <<>>]
    ELSE
      LET done == FormatEvents(events, n - 1)
          summary == EventGet(events[n].summary, PyNone)
      IN  IF summary.tag = "None" \/ summary.s = <<>> THEN done
          ELSE
            LET parsed == parse_event_summary(summary.s)
            IN  IF parsed.class_name.tag = "None" \/ parsed.period.tag = "None"
                THEN [done EXCEPT !.unrecognized_events = Append(@, summary.s)]
                ELSE [done EXCEPT !.formatted_schedule =
                         append_event(@, parsed.period.s, parsed.class_name.s,
                                      format_room_name(EventGet(events[n].location,
                                                                PyStr(<<>>))))]

format_schedule_for_events(events) == FormatEvents(events, Len(events))

(* ------------------------------ calls ---------------------------------- *)
SplitCalls == [op : {"split_text_two_lines"}, args : [text : SplitTexts]]

FitCalls ==
    [op : {"fit_text_to_width"},
     args : [text : Texts, max_width : 0..MaxW, base_size : 1..MaxSize,
             min_size : 1..MaxSize, font_base64 : Fonts, allow_split : BOOLEAN]]

\* keys of normalizer inputs: small integers and strings over digits and a
\* letter, the empty string included
KeyChars == {"0", "1", "a"}

NormKeys ==
    {IntKey(n) : n \in 0..MaxIntKey} \cup {StrKey(k) : k \in SeqsUpTo(KeyChars, MaxKeyLen)}

\* dicts of at most MaxEntries items with pairwise different keys, in every
\* insertion order, the value of an item naming its position
NormInputs ==
    {[i \in 1..Len(ks) |-> <<ks[i], <<"V">> \o Str(i)>>] :
        ks \in {k \in SeqsUpTo(NormKeys, MaxEntries) :
                   \A i, j \in 1..Len(k) : i # j => k[i] # k[j]}}

NormCalls == [op : {"normalize_classes"}, args : [classes : NormInputs]]

(* ------------------------- tables of the callers ----------------------- *)
Periods == 1..8

PeriodKey(kind, p) == IF kind = "int" THEN IntKey(p) ELSE StrKey(Str(p))

\* the table with one entry per period outside missing, in ascending order,
\* keyed by integers or by decimal strings
TableOf(kind, missing, val) ==
    LET present == SelectSeq([p \in Periods |-> p], LAMBDA p : p \notin missing)
    IN  [i \in 1..Len(present) |-> <<PeriodKey(kind, present[i]), val[present[i]]>>]

\* complete tables and tables lacking one period
MissingSets == {{}} \cup {{p} : p \in Periods}

KeyKinds == {"int", "str"}

PlainLabels == [p \in Periods |-> <<"A">> \o Str(p)]

\* labels that fit, that split in two lines, that shrink on one line and
\* that name Foundations
MixedLabels ==
    [p \in Periods |->
        IF p = 1 THEN ExampleMid
        ELSE IF p = 2 THEN <<"A", "A", "A", "A", "A", "A", "A", "A", "A", "A">>
        ELSE IF p = 5 THEN Foundations
        ELSE <<"B">> \o Str(p)]

\* labels around the substring the X-day column looks for: the spec's
\* example, a lower-case spelling, a proper prefix, and a label holding '>'
FoundationsLabels ==
    [p \in Periods |->
        IF p = 5 THEN Foundations \o <<" ", "(", "H", ")">>
        ELSE IF p = 4 THEN <<"f", "o", "u", "n", "d", "a", "t", "i", "o", "n", "s">>
        ELSE IF p = 3 THEN SubSeq(Foundations, 1, Len(Foundations) - 1)
        ELSE IF p = 8 THEN <<"B", ">", "8">>
        ELSE <<"B">> \o Str(p)]

RoomTexts == [p \in Periods |-> <<"R">> \o Str(p)]

\* what flask_app passes for a period whose room field is left blank
BlankTexts == [p \in Periods |-> <<>>]

TeacherTexts == [p \in Periods |-> <<"T">> \o Str(p)]

ClassTables ==
    {TableOf(k, m, l) : k \in KeyKinds, m \in MissingSets, l \in {PlainLabels, MixedLabels}}

RoomTables == {TableOf(k, m, RoomTexts) : k \in KeyKinds, m \in MissingSets}

TeacherTables == {TableOf(k, m, TeacherTexts) : k \in KeyKinds, m \in MissingSets}

\* the four day columns as create_svg places them
DrawDayCalls ==
    {[op |-> "draw_day",
      args |-> [x |-> START_X + MAIN_OFFSET_X + WIDTH * (i - 1), y |-> START_Y + MAIN_OFFSET_Y,
                daily_classes |-> DayPatterns[i], classes |-> c, rooms |-> r,
                teachers |-> t]] :
        i \in 1..4, c \in {TableOf(k, m, MixedLabels) : k \in KeyKinds, m \in MissingSets},
        r \in RoomTables, t \in TeacherTables}

CreateSvgCalls ==
    [op : {"create_svg"},
     args : [classes : ClassTables, rooms : RoomTables, teachers : TeacherTables,
             title : {<<"T">>}, free_period_name : {<<"S">>}, exact_dimension : BOOLEAN]]

\* sets of band heights the constants may be given: the shipped ones and all
\* small ones
Heights == 1..MaxHeight

HeightCalls ==
    [op : {"XDAY_CLASS_HEIGHT"},
     args : [other_height : Heights, class_height : Heights, break_height : Heights]
            \cup {[other_height |-> OTHER_HEIGHT, class_height |-> CLASS_HEIGHT,
                    break_height |-> BREAK_HEIGHT]}]

\* complete tables as flask_app and __main__ pass them: labels under the
\* integers 1..8, rooms and teachers under the strings "1".."8"
CompleteLabelTables ==
    {TableOf("int", {}, l) : l \in {PlainLabels, MixedLabels, FoundationsLabels}}

StudyPeriod == <<"S", "t", "u", "d", "y", " ", "P", "e", "r", "i", "o", "d">>

FreeNames == {<<"S">>, StudyPeriod}

Titles == {<<>>, <<"T">>, <<">">>, <<"a", ">", "b">>}

ComposeCalls ==
    [op : {"create_svg"},
     args : [classes : CompleteLabelTables,
             rooms : {TableOf("str", {}, RoomTexts), TableOf("str", {}, BlankTexts)},
             teachers : {TableOf("str", {}, TeacherTexts)},
             title : Titles, free_period_name : FreeNames, exact_dimension : BOOLEAN]]

SessionTitles == {<<"T">>, <<">">>}

SessionCalls ==
    {c \in ComposeCalls :
        /\ c.args.title \in SessionTitles
        /\ c.args.free_period_name = StudyPeriod
        /\ c.args.rooms = TableOf("str", {}, RoomTexts)}

\* the X-day column as create_svg places it
DrawXDayCalls ==
    {[op |-> "draw_xday",
      args |-> [x |-> START_X + XDAY_OFFSET_X, y |-> START_Y + XDAY_OFFSET_Y,
                classes |-> c, free_period_name |-> f]] :
        c \in ClassTables \cup CompleteLabelTables, f \in FreeNames}

\* the times column at the origin and where create_svg places it
DrawTimesCalls ==
    [op : {"draw_times"},
     args : [x : {0, START_X + TIMES_OFFSET_X}, y : {0, START_Y + TIMES_OFFSET_Y}]]

\* draw_xday in a module whose band heights are any small positive ones
XDayBandCalls ==
    [op : {"draw_xday.rects"},
     args : [y : {0, START_Y}, other_height : Heights, class_height : Heights,
             break_height : 1..MaxBreak]]

(* ------------------------------ flask_app ------------------------------ *)
\* request.form.get(key, default) for the field the form holds under the key
form_get(field, default) == IF field.tag = "absent" THEN default ELSE field

\* A JSON text is given by what json.loads makes of it: a text it rejects,
\* an array, or an object, whose members are objects with name, room and
\* teacher members or numbers.  NotPosted is the form without the field.
JsonMalformed == [tag |-> "str", kind |-> "malformed", items |-> <<>>]
JsonArray == [tag |-> "str", kind |-> "array", items |-> <<>>]
JsonObject(items) == [tag |-> "str", kind |-> "object", items |-> items]
NotPosted == [tag |-> "absent", kind |-> "absent", items |-> <<>>]

JsonNumber == [tag |-> "number", s |-> <<>>]

JsonMember(name, room, teacher) ==
    [kind |-> "object", name |-> name, room |-> room, teacher |-> teacher]

JsonNonDict == [kind |-> "number", name |-> Absent, room |-> Absent, teacher |-> Absent]

json_loads(text) == IF text.kind = "malformed" THEN Raise("JSONDecodeError") ELSE Ok(text)

TextResponse(text, error, status) ==
    [status |-> status, mimetype |-> "text/html", text |-> text, error |-> error,
     svg |-> <<>>]

SvgResponse(svg_content) ==
    [status |-> 200, mimetype |-> "image/svg+xml", text |-> "", error |-> "", svg |-> svg_content]

\* except Exception as e
ServerError(e) == TextResponse("Error generating schedule: ", e, 500)

\* {str(k): v.get(member, "").strip() for k, v in raw_classes.items()
\*  if isinstance(v, dict)}, given the members that are dicts
MemberTable(dicts, member) ==
    [i \in 1..Len(dicts) |->
        <<StrKey(dicts[i][1]),
          Strip(form_get(IF member = "name" THEN dicts[i][2].name
                         ELSE IF member = "room" THEN dicts[i][2].room
                         ELSE dicts[i][2].teacher, PyStr(<<>>)).s)>>]

\* what the handler does once create_svg has returned or raised: return
\* Response(svg_content, ...), or handle the exception
respond(svg_content) ==
    IF svg_content.tag = "raise" THEN ServerError(svg_content.exc)
    ELSE SvgResponse(svg_content.value.str)

\* the handler up to its call of create_svg: the response it returns before
\* the call, or the arguments it makes the call with
generate_schedule(form) ==
    LET title == form_get(form.title, PyStr(<<"S", "c", "h", "e", "d", "u", "l", "e">>)).s
        stripped == Strip(form_get(form.free_period_name, PyStr(<<>>)).s)
        free_period_name == IF stripped = <<>> THEN StudyPeriod ELSE stripped
        loaded == json_loads(form_get(form.classes, JsonObject(<<>>)))
        answer(response) == [tag |-> "return", response |-> response]
    IN  IF loaded.tag = "raise"
        THEN answer(TextResponse("Error: Invalid JSON format for classes", "", 400))
        ELSE IF loaded.value.kind # "object" THEN answer(ServerError("AttributeError"))
        ELSE
          LET dicts == SelectSeq(loaded.value.items, LAMBDA kv : kv[2].kind = "object")
          IN  IF \E i \in 1..Len(dicts) :
                     \/ dicts[i][2].name.tag = "number"
                     \/ dicts[i][2].room.tag = "number"
                     \/ dicts[i][2].teacher.tag = "number"
              THEN answer(ServerError("AttributeError"))
              ELSE
                LET classes == normalize_classes(MemberTable(dicts, "name"))
                IN  IF classes.tag = "raise" THEN answer(ServerError(classes.exc))
                    ELSE IF classes.tag = "None"
                    THEN answer(TextResponse("Error: Invalid classes format", "", 400))
                    ELSE [tag |-> "create_svg",
                          args |-> [classes |-> classes.value,
                                    rooms |-> MemberTable(dicts, "room"),
                                    teachers |-> MemberTable(dicts, "teacher"),
                                    title |-> title, free_period_name |-> free_period_name,
                                    exact_dimension |-> FALSE]]

(* ------------------------------ calls of the tools -------------------- *)
\* calendar events: titles of every shape the parser tells apart, with and
\* without a summary, rooms of 2, 3 and 4 digits, named, padded and missing
EventCatalogue ==
    {[summary |-> PyStr(<<"A", "r", "t", " ", "-", " ", "6", " ", "B", "l", "o", "c", "k", " ", "6">>), location |-> PyStr(<<"1", "2">>)],
     [summary |-> PyStr(<<"A", "r", "t", " ", "-", " ", "6", " ", "B", "l", "o", "c", "k", " ", "6">>), location |-> PyStr(<<"1", "2", "3">>)],
     [summary |-> PyStr(<<"U", "S", " ", "-", " ", "7", "*", " ", "B", "l", "o", "c", "k", " ", "7">>), location |-> PyStr(<<"G", "y", "m">>)],
     [summary |-> PyStr(<<"A", "r", "t">>), location |-> PyStr(<<"1", "2">>)],
     [summary |-> PyStr(<<"A", "r", "t", " ", "-", " ", "6">>), location |-> PyNone],
     [summary |-> PyStr(<<"A", "r", "t", " ", "-", " ", "B", "l", "o", "c", "k", " ">>), location |-> PyStr(<<"1", "2">>)],
     [summary |-> PyStr(<<"A", "r", "t", " ", "-", " ", "b", "l", "o", "c", "k", " ", "x">>), location |-> PyStr(<<"1", "2">>)],
     [summary |-> PyStr(<<"A", "r", "t", " ", "-", " ", "B", "L", "O", "C", "K", " ", "1", "2", " ", "B">>), location |-> PyStr(<<" ", "7", " ">>)],
     [summary |-> PyStr(<<" ", "-", " ", "B", "l", "o", "c", "k", " ", "6">>), location |-> PyStr(<<>>)],
     [summary |-> PyStr(<<"A", "r", "t", " ", "-", " ", "B", "l", "o", "c", "k", " ", " ", "6">>), location |-> Absent],
     [summary |-> PyStr(<<"A", "r", "t", " ", "-", " ", "B", "l", "o", "c", "k", " ", "6", "*">>), location |-> PyStr(<<"1", "2">>)],
     [summary |-> PyStr(<<>>), location |-> PyStr(<<"1", "2">>)],
     [summary |-> PyStr(<<" ">>), location |-> PyStr(<<"1", "2">>)],
     [summary |-> PyStr(<<"A", " ", "-", " ", "B", " ", "-", " ", "B", "l", "o", "c", "k", " ", "6">>), location |-> PyStr(<<"1", "2", "3", "4">>)],
     [summary |-> PyNone, location |-> PyStr(<<"1", "2">>)],
     [summary |-> Absent, location |-> PyStr(<<"1", "2", "3">>)]}

FormatCalls ==
    [op : {"format_schedule_for_events"},
     args : [events : SeqsUpTo(EventCatalogue, MaxEvents)]]

\* the members the form of the page posts for the eight periods
FormMember(p) ==
    JsonMember(PyStr(FoundationsLabels[p]), PyStr(RoomTexts[p]), PyStr(TeacherTexts[p]))

FormMembers == [p \in Periods |-> <<Str(p), FormMember(p)>>]

\* the member of period p replaced
WithMember(p, member) == [FormMembers EXCEPT ![p] = <<Str(p), member>>]

\* what may be posted as the classes field: nothing, a text that is no
\* JSON, an array, the eight periods, with a period missing, with a further
\* key that is or is not a number, with a member that is no object, with a
\* member without a room, with a name that is no string
PostedClasses ==
    {NotPosted, JsonMalformed, JsonArray, JsonObject(FormMembers),
     JsonObject(SelectSeq(FormMembers, LAMBDA kv : kv[1] # Str(3))),
     JsonObject(SelectSeq(FormMembers, LAMBDA kv : kv[1] # Str(8))),
     JsonObject(Append(FormMembers, <<<<"9">>, FormMember(1)>>)),
     JsonObject(Append(FormMembers, <<<<"a">>, FormMember(1)>>)),
     JsonObject(<<<<<<>>, FormMember(1)>>>> \o FormMembers),
     JsonObject(Append(FormMembers, <<<<"a">>, JsonNonDict>>)),
     JsonObject(WithMember(2, JsonNonDict)),
     JsonObject(WithMember(4, JsonMember(PyStr(<<" ", "A", " ">>), Absent, PyStr(<<>>)))),
     JsonObject(WithMember(5, JsonMember(Absent, Absent, Absent))),
     JsonObject(WithMember(6, JsonMember(JsonNumber, PyStr(<<>>), PyStr(<<>>)))),
     JsonObject(WithMember(7, JsonMember(PyStr(<<"A">>), PyStr(<<>>), JsonNumber)))}

GenerateCalls ==
    [op : {"generate_schedule"},
     args : [form : [title : {Absent, PyStr(<<"T">>)},
                     free_period_name : {Absent, PyStr(<<" ", " ">>), PyStr(<<" ", "F">>)},
                     classes : PostedClasses]]]

Calls ==
    SplitCalls \cup FitCalls \cup NormCalls \cup DrawDayCalls \cup CreateSvgCalls
    \cup HeightCalls \cup ComposeCalls \cup DrawXDayCalls \cup DrawTimesCalls
    \cup XDayBandCalls \cup FormatCalls \cup GenerateCalls

NoValue == [tag |-> "none"]

\* the geometry and colour names of the module as the import binds them
ModuleAtImport ==
    [OTHER_HEIGHT |-> OTHER_HEIGHT, CLASS_HEIGHT |-> CLASS_HEIGHT,
     BREAK_HEIGHT |-> BREAK_HEIGHT, TITLE_HEIGHT |-> TITLE_HEIGHT,
     XDAY_CLASS_HEIGHT |-> XDAY_CLASS_HEIGHT, WIDTH |-> WIDTH, XDAY_GAP |-> XDAY_GAP,
     START_X |-> START_X, START_Y |-> START_Y, MAIN_OFFSET_X |-> MAIN_OFFSET_X,
     MAIN_OFFSET_Y |-> MAIN_OFFSET_Y, TIMES_OFFSET_X |-> TIMES_OFFSET_X,
     TIMES_OFFSET_Y |-> TIMES_OFFSET_Y, XDAY_OFFSET_X |-> XDAY_OFFSET_X,
     XDAY_OFFSET_Y |-> XDAY_OFFSET_Y, STROKE_WIDTH |-> STROKE_WIDTH,
     CANVAS_WIDTH |-> CANVAS_WIDTH, CANVAS_HEIGHT |-> CANVAS_HEIGHT,
     CLASS_COLORS |-> CLASS_COLORS]

\* no call is being followed step by step
NoLocals == [tag |-> "none"]

(* ----------------------------- actions --------------------------------- *)
\* A caller is about to make one call of the library.
Init ==
    /\ \E c \in Calls : op = c.op /\ args = c.args
    /\ pc = "call"
    /\ ret = NoValue
    /\ log = <<>>
    /\ module = ModuleAtImport
    /\ local = NoLocals

CallSplit ==
    /\ pc = "call"
    /\ op = "split_text_two_lines"
    /\ ret' = split_text_two_lines(args.text)
    /\ pc' = "done"
    /\ UNCHANGED <<op, args, log, module, local>>

CallFit ==
    /\ pc = "call"
    /\ op = "fit_text_to_width"
    /\ ret' = fit_text_to_width(args.text, args.max_width, args.base_size,
                                args.min_size, args.font_base64, args.allow_split)
    /\ pc' = "done"
    /\ UNCHANGED <<op, args, log, module, local>>

CallNormalize ==
    /\ pc = "call"
    /\ op = "normalize_classes"
    /\ ret' = normalize_classes(args.classes)
    /\ pc' = "done"
    /\ UNCHANGED <<op, args, log, module, local>>

CallDrawDay ==
    /\ pc = "call"
    /\ op = "draw_day"
    /\ ret' = draw_day(args.x, args.y, args.daily_classes, args.classes, args.rooms,
                       args.teachers)
    /\ pc' = "done"
    /\ UNCHANGED <<op, args, log, module, local>>

\* The caller's label table is what it was once create_svg has returned.
CallCreateSvg ==
    /\ pc = "call"
    /\ op = "create_svg"
    /\ ret' = create_svg(args.classes, args.rooms, args.teachers, args.title,
                         args.free_period_name, args.exact_dimension)
    /\ args' = [args EXCEPT !.classes = caller_classes(@, args.free_period_name)]
    /\ log' = Append(log, [args |-> args, ret |-> ret'])
    /\ pc' = "done"
    /\ UNCHANGED <<op, module, local>>

\* The caller of a finished create_svg call makes another one with the
\* tables it holds, under the same or another title and sizing flag.
CallAgain ==
    /\ pc = "done"
    /\ op = "create_svg"
    /\ Len(log) < MaxCalls
    /\ \E t \in SessionTitles, e \in BOOLEAN :
           args' = [args EXCEPT !.title = t, !.exact_dimension = e]
    /\ pc' = "call"
    /\ ret' = NoValue
    /\ UNCHANGED <<op, log, module, local>>

CallDrawXDay ==
    /\ pc = "call"
    /\ op = "draw_xday"
    /\ ret' = draw_xday(args.x, args.y, args.classes, args.free_period_name)
    /\ pc' = "done"
    /\ UNCHANGED <<op, args, log, module, local>>

CallDrawTimes ==
    /\ pc = "call"
    /\ op = "draw_times"
    /\ ret' = Ok(draw_times(args.x, args.y))
    /\ pc' = "done"
    /\ UNCHANGED <<op, args, log, module, local>>

\* the rectangles of draw_xday under the band heights of the call
CallXDayBands ==
    /\ pc = "call"
    /\ op = "draw_xday.rects"
    /\ ret' = xday_bands(args.y, args.other_height, args.break_height,
                         xday_class_height(args.other_height, args.class_height,
                                           args.break_height))
    /\ pc' = "done"
    /\ UNCHANGED <<op, args, log, module, local>>

CallFormatSchedule ==
    /\ pc = "call"
    /\ op = "format_schedule_for_events"
    /\ ret' = format_schedule_for_events(args.events)
    /\ pc' = "done"
    /\ UNCHANGED <<op, args, log, module, local>>

\* POST /generate: the handler returns a response, or goes on to call
\* create_svg, keeping the form in its frame
CallGenerateSchedule ==
    /\ pc = "call"
    /\ op = "generate_schedule"
    /\ IF generate_schedule(args.form).tag = "return"
       THEN /\ ret' = generate_schedule(args.form).response
            /\ pc' = "done"
            /\ UNCHANGED <<op, args, local>>
       ELSE /\ op' = "create_svg"
            /\ args' = generate_schedule(args.form).args
            /\ local' = [tag |-> "generate", form |-> args.form]
            /\ UNCHANGED <<pc, ret>>
    /\ UNCHANGED <<log, module>>

\* create_svg has returned or raised inside the handler: the response
ReturnToGenerate ==
    /\ pc = "done"
    /\ op = "create_svg"
    /\ local.tag = "generate"
    /\ ret' = respond(ret)
    /\ op' = "generate_schedule"
    /\ args' = [form |-> local.form]
    /\ local' = NoLocals
    /\ UNCHANGED <<pc, log, module>>

\* the module-level assignment of XDAY_CLASS_HEIGHT
DeriveXDayClassHeight ==
    /\ pc = "call"
    /\ op = "XDAY_CLASS_HEIGHT"
    /\ ret' = xday_class_height(args.other_height, args.class_height, args.break_height)
    /\ pc' = "done"
    /\ UNCHANGED <<op, args, log, module, local>>

Next ==
    \/ CallSplit \/ CallFit \/ CallNormalize \/ CallDrawDay \/ CallCreateSvg
    \/ CallDrawXDay \/ CallDrawTimes \/ DeriveXDayClassHeight \/ CallXDayBands
    \/ CallFormatSchedule \/ CallGenerateSchedule \/ ReturnToGenerate

Spec == Init /\ [][Next]_vars

\* fit_text_to_width followed statement by statement.  The fonts are the
\* ones whose glyphs all have the same advance.
FitStepCalls == {c \in FitCalls : \A a, b \in Chars : c.args.font_base64[a] = c.args.font_base64[b]}

FitStepsInit ==
    /\ \E c \in FitStepCalls : op = c.op /\ args = c.args
    /\ pc = "call"
    /\ ret = NoValue
    /\ log = <<>>
    /\ module = ModuleAtImport
    /\ local = NoLocals

\* the local names of the call: the lines to fit, the size under test and
\* the sizes the loop has tested so far
FitLocals(lines, font_size, examined) ==
    [tag |-> "fit", lines |-> lines, font_size |-> font_size, examined |-> examined]

\* the one-line test at base_size, then the choice of the lines and
\* font_size = base_size
FitTestBase ==
    /\ pc = "call"
    /\ op = "fit_text_to_width"
    /\ IF measure_text_width(args.text, args.base_size, args.font_base64) <= args.max_width
       THEN /\ ret' = [size |-> args.base_size,
                       second |-> IF args.allow_split THEN LinesValue(<<args.text>>)
                                  ELSE IntValue(args.base_size)]
            /\ local' = FitLocals(<<args.text>>, args.base_size, <<>>)
            /\ pc' = "done"
       ELSE /\ local' = FitLocals(IF args.allow_split /\ HasSpace(args.text)
                                  THEN split_text_two_lines(args.text) ELSE <<args.text>>,
                                  args.base_size, <<>>)
            /\ pc' = "loop"
            /\ UNCHANGED ret
    /\ UNCHANGED <<op, args, log, module>>

\* one evaluation of the loop condition and, when it holds, one pass of
\* the body: return at a size that fits or font_size -= 1
FitLoopStep ==
    /\ pc = "loop"
    /\ IF shrink_loop_runs(local.font_size, args.min_size)
       THEN IF AllFit(local.lines, args.max_width, local.font_size, args.font_base64)
            THEN /\ ret' = [size |-> local.font_size, second |-> LinesValue(local.lines)]
                 /\ local' = [local EXCEPT !.examined = Append(@, local.font_size)]
                 /\ pc' = "done"
            ELSE /\ local' = [local EXCEPT !.examined = Append(@, local.font_size),
                                           !.font_size = @ - 1]
                 /\ UNCHANGED <<ret, pc>>
       ELSE /\ ret' = [size |-> args.min_size, second |-> LinesValue(local.lines)]
            /\ pc' = "done"
            /\ UNCHANGED local
    /\ UNCHANGED <<op, args, log, module>>

FitStepsNext == FitTestBase \/ FitLoopStep

\* a running call is not suspended for ever
FitSteps == FitStepsInit /\ [][FitStepsNext]_vars /\ WF_vars(FitStepsNext)

\* a caller holding complete tables starts a session of create_svg calls
SessionInit ==
    /\ \E c \in SessionCalls : op = c.op /\ args = c.args
    /\ pc = "call"
    /\ ret = NoValue
    /\ log = <<>>
    /\ module = ModuleAtImport
    /\ local = NoLocals

SessionNext == CallCreateSvg \/ CallAgain

Session == SessionInit /\ [][SessionNext]_vars

(* ======================== text fitter properties ======================= *)
FitDone == pc = "done" /\ op = "fit_text_to_width"

SplitDone == pc = "done" /\ op = "split_text_two_lines"

\* the lines the returned layout consists of: the returned list, or the text
\* itself on the return that carries no list
LaidOutLines ==
    IF ret.second.tag = "list" THEN ret.second.lines ELSE <<args.text>>

\* the lines fit_text_to_width is to lay out for its arguments
ComputedLines ==
    IF args.allow_split /\ HasSpace(args.text)
    THEN split_text_two_lines(args.text)
    ELSE <<args.text>>

SizeRange == args.min_size..args.base_size

FitsAt(lines, s) == AllFit(lines, args.max_width, s, args.font_base64)

\* C1: when min_size <= base_size and the whole text fits max_width at
\* min_size, the returned size is the largest size of [min_size, base_size]
\* at which every returned line measures <= max_width, with and without
\* allow_split.
C1_LargestFittingSize ==
    (/\ FitDone
     /\ args.min_size <= args.base_size
     /\ measure_text_width(args.text, args.min_size, args.font_base64) <= args.max_width)
    => /\ ret.size \in SizeRange
       /\ FitsAt(LaidOutLines, ret.size)
       /\ \A s \in SizeRange : FitsAt(LaidOutLines, s) => s <= ret.size

\* a two-line layout shrunk to a size strictly between min_size and base_size
C1_Witness ==
    /\ FitDone
    /\ args.min_size <= args.base_size
    /\ measure_text_width(args.text, args.min_size, args.font_base64) <= args.max_width
    /\ ret.second.tag = "list" /\ Len(ret.second.lines) = 2
    /\ args.min_size < ret.size /\ ret.size < args.base_size

\* C2: whenever the whole text fits max_width at base_size the call returns
\* the pair (base_size, [text]), for allow_split true and false alike.
C2_BaseFitReturnsTextList ==
    (FitDone /\ measure_text_width(args.text, args.base_size, args.font_base64) <= args.max_width)
    => ret = [size |-> args.base_size, second |-> LinesValue(<<args.text>>)]

\* 0-based indices of the spaces of a text
SpacesOf(text) == {i \in 0..(Len(text) - 1) : text[i + 1] = " "}

Dist(i, mid) == IF i >= mid THEN i - mid ELSE mid - i

\* the space nearest the midpoint, the lower index winning a tie
NearestSpace(text) ==
    LET mid == Len(text) \div 2
    IN  CHOOSE p \in SpacesOf(text) :
            \A q \in SpacesOf(text) :
                Dist(p, mid) < Dist(q, mid) \/ (Dist(p, mid) = Dist(q, mid) /\ p <= q)

\* C3: a text with a space is split at the space nearest len(text)//2, a
\* tie going to the space before the midpoint, a lone side being used;
\* "AAAA BBBB" gives ["AAAA","BBBB"] and "A BBBBBBBB" gives ["A","BBBBBBBB"].
C3_SplitAtNearestSpace ==
    (SplitDone /\ HasSpace(args.text))
    => /\ LET p == NearestSpace(args.text)
          IN  ret = <<Strip(Slice(args.text, 0, p)),
                      Strip(Slice(args.text, p + 1, Len(args.text)))>>
       /\ args.text = ExampleMid => ret = <<<<"A", "A", "A", "A">>, <<"B", "B", "B", "B">>>>
       /\ args.text = ExampleOnly
            => ret = <<<<"A">>, <<"B", "B", "B", "B", "B", "B", "B", "B">>>>

\* a split whose two candidate spaces are equally far from the midpoint
C3_Witness ==
    /\ SplitDone
    /\ LET mid == Len(args.text) \div 2
       IN  \E p, q \in SpacesOf(args.text) :
               p < mid /\ q >= mid /\ mid - p = q - mid /\ mid - p = 1
                 /\ ret[1] = Strip(Slice(args.text, 0, p))
    /\ Len(ret) = 2 /\ ret[1] # <<>> /\ ret[2] # <<>>

\* C4 as stated: when no size of [min_size, base_size] makes every line fit,
\* the call returns min_size paired with the lines it computed.
C4_Original ==
    (FitDone /\ \A s \in SizeRange : ~FitsAt(ComputedLines, s))
    => ret.size = args.min_size /\ LaidOutLines = ComputedLines

\* C4 as amended: when the whole text does not fit at base_size and no size
\* of [min_size, base_size] makes every computed line fit, the call returns
\* min_size paired with the computed lines (the two split lines when
\* allow_split is true and the text has a space, otherwise the text).
C4_FloorOnOverflow ==
    (/\ FitDone
     /\ ~(measure_text_width(args.text, args.base_size, args.font_base64) <= args.max_width)
     /\ \A s \in SizeRange : ~FitsAt(ComputedLines, s))
    => ret = [size |-> args.min_size, second |-> LinesValue(ComputedLines)]

\* two split lines that overflow at every size of a non-empty range
C4_Witness ==
    /\ FitDone
    /\ args.min_size < args.base_size
    /\ Len(ComputedLines) = 2
    /\ \A s \in SizeRange : ~FitsAt(ComputedLines, s)
    /\ ret.size = args.min_size

\* C5: for a text without a space the call with allow_split true returns
\* exactly what the call with allow_split false returns.
C5_NoSpaceSplitFlagIrrelevant ==
    (FitDone /\ ~HasSpace(args.text))
    => ret = fit_text_to_width(args.text, args.max_width, args.base_size,
                               args.min_size, args.font_base64, ~args.allow_split)

(* ========================= normalizer properties ======================= *)
NormDone == pc = "done" /\ op = "normalize_classes"

AllCoercible == \A i \in 1..Len(args.classes) : IntCoercible(args.classes[i][1])

IntKeysAscending(items) ==
    /\ \A i \in 1..Len(items) : items[i][1].kind = "int"
    /\ \A i \in 1..(Len(items) - 1) : items[i][1].n < items[i + 1][1].n

\* C9 as stated: for keys all coercible to integers the result has integer
\* keys in strictly ascending order and keeps every input entry: as many
\* entries as the input, each input value under its coerced key.
C9_Original ==
    (NormDone /\ AllCoercible)
    => /\ ret.tag = "ok"
       /\ IntKeysAscending(ret.value)
       /\ Len(ret.value) = Len(args.classes)
       /\ \A i \in 1..Len(args.classes) :
              /\ DictHas(ret.value, IntKey(ToInt(args.classes[i][1])))
              /\ DictGet(ret.value, IntKey(ToInt(args.classes[i][1]))) = args.classes[i][2]

\* index of the last input entry whose key coerces to n
LastWithInt(n) ==
    CHOOSE i \in 1..Len(args.classes) :
        /\ ToInt(args.classes[i][1]) = n
        /\ \A j \in 1..Len(args.classes) : ToInt(args.classes[j][1]) = n => j <= i

\* C9 as amended: for keys all coercible to integers the result has integer
\* keys in strictly ascending order, exactly the integers the input keys
\* coerce to, each carrying unchanged the value of the last input entry (in
\* iteration order) whose key coerces to it; so every entry is kept, with
\* as many entries as the input, exactly when no two keys coerce to the
\* same integer, and entries whose keys collide are merged into one.
C9_SortedLastWins ==
    (NormDone /\ AllCoercible)
    => /\ ret.tag = "ok"
       /\ IntKeysAscending(ret.value)
       /\ {it[1].n : it \in {ret.value[i] : i \in 1..Len(ret.value)}}
            = {ToInt(args.classes[i][1]) : i \in 1..Len(args.classes)}
       /\ \A i \in 1..Len(ret.value) :
              ret.value[i][2] = args.classes[LastWithInt(ret.value[i][1].n)][2]
       /\ (Len(ret.value) = Len(args.classes))
            <=> (\A i, j \in 1..Len(args.classes) :
                    i # j => ToInt(args.classes[i][1]) # ToInt(args.classes[j][1]))

\* string keys given in descending order come out as ascending integers
C9_Witness ==
    /\ NormDone /\ AllCoercible
    /\ Len(args.classes) = 2
    /\ args.classes[1][1].kind = "str" /\ args.classes[2][1].kind = "str"
    /\ ToInt(args.classes[1][1]) > ToInt(args.classes[2][1])
    /\ args.classes[1][2] # args.classes[2][2]
    /\ ret.tag = "ok" /\ Len(ret.value) = 2

\* C10: a key that is not coercible to an integer makes normalize_classes
\* raise to its caller; no table is returned and the key is neither skipped
\* nor repaired.
C10_BadKeyRaises ==
    (NormDone /\ ~AllCoercible) => ret = Raise("ValueError")

\* a bad key next to a good one
C10_Witness ==
    /\ NormDone
    /\ \E i, j \in 1..Len(args.classes) :
           ~IntCoercible(args.classes[i][1]) /\ IntCoercible(args.classes[j][1])
    /\ ret.tag = "raise"

(* ====================== day column and composer ======================== *)
DrawDayDone == pc = "done" /\ op = "draw_day"

CreateSvgDone == pc = "done" /\ op = "create_svg"

\* every period of the pattern drawn has a label under its number
PatternLabelled ==
    \A i \in 1..4 : DictHas(args.classes, IntKey(args.daily_classes[i]))

\* the table has no entry for the period, under its number or its string
NoEntry(table, p) == ~DictHas(table, IntKey(p)) /\ ~DictHas(table, StrKey(Str(p)))

\* the text runs of a returned day column at the given fraction (in
\* hundredths) of the height of its i-th class band
RunsAt(elements, i, hundredths) ==
    {elements[n].text : n \in {m \in 1..Len(elements) :
        /\ elements[m].type = "text"
        /\ elements[m].y = FX(args.y + DayBandTop[i]) + Frac(FX(CLASS_HEIGHT), hundredths)}}

RoomRuns(elements, i) == RunsAt(elements, i, 85)

TeacherRuns(elements, i) == RunsAt(elements, i, 15)

\* C6: a pattern period without an entry in the room table or in the
\* teacher table does not make the day column or the composer fail; the
\* room or teacher of that period is rendered as the empty string.
C6_MissingRoomTeacherIsEmpty ==
    /\ (DrawDayDone /\ PatternLabelled)
        => /\ ret.tag = "ok"
           /\ \A i \in 1..4 :
                  /\ NoEntry(args.rooms, args.daily_classes[i])
                       => RoomRuns(ret.value, i) = {<<>>}
                  /\ NoEntry(args.teachers, args.daily_classes[i])
                       => TeacherRuns(ret.value, i) = {<<>>}
    /\ (CreateSvgDone /\ \A p \in Periods : DictHas(args.classes, IntKey(p)))
        => ret.tag = "ok"

\* C7: every period 1..8 is referenced by a day pattern, and a label table
\* lacking any of them makes create_svg fail with a lookup error: nothing
\* is returned, neither a partial document nor a default label.
C7_MissingLabelIsFatal ==
    /\ \A p \in Periods : \E d \in 1..4 : \E i \in 1..4 : DayPatterns[d][i] = p
    /\ (CreateSvgDone /\ \E p \in Periods : ~DictHas(args.classes, IntKey(p)))
        => ret = Raise("KeyError")

\* one label missing from an integer-keyed table, rooms and teachers complete
C7_Witness ==
    /\ CreateSvgDone
    /\ Len(args.classes) = 7
    /\ \A i \in 1..Len(args.classes) : args.classes[i][1].kind = "int"
    /\ \A p \in Periods :
           DictHas(args.rooms, AuxKey(p)) /\ DictHas(args.teachers, AuxKey(p))
    /\ ret.tag = "raise"

\* the table has an entry under each integer 1..8
IntKeyedComplete(table) == \A p \in Periods : DictHas(table, IntKey(p))

\* the table has an entry under each decimal string "1".."8"
StrKeyedComplete(table) == \A p \in Periods : DictHas(table, StrKey(Str(p)))

\* C8 as stated: the room and teacher tables are subscripted with the
\* period number itself, so integer-keyed room and teacher tables are
\* accepted and give each period's room and teacher text.
C8_Original ==
    (/\ DrawDayDone /\ PatternLabelled
     /\ IntKeyedComplete(args.rooms) /\ IntKeyedComplete(args.teachers))
    => /\ ret.tag = "ok"
       /\ \A i \in 1..4 :
              /\ RoomRuns(ret.value, i) = {DictGet(args.rooms, IntKey(args.daily_classes[i]))}
              /\ TeacherRuns(ret.value, i)
                   = {DictGet(args.teachers, IntKey(args.daily_classes[i]))}

\* C8 as amended: the room and teacher tables are subscripted with the
\* decimal string of the period number, str(period): string-keyed room and
\* teacher tables (keys "1".."8") are accepted by the day column and give
\* each period's room and teacher text, while a table that has the period
\* only under its integer is not accepted (lookup error), although the
\* label table is subscripted with the integer.
C8_AuxTablesKeyedByString ==
    (DrawDayDone /\ PatternLabelled)
    => /\ (StrKeyedComplete(args.rooms) /\ StrKeyedComplete(args.teachers))
            => /\ ret.tag = "ok"
               /\ \A i \in 1..4 :
                      /\ RoomRuns(ret.value, i)
                           = {DictGet(args.rooms, StrKey(Str(args.daily_classes[i])))}
                      /\ TeacherRuns(ret.value, i)
                           = {DictGet(args.teachers, StrKey(Str(args.daily_classes[i])))}
       /\ (IntKeyedComplete(args.rooms) \/ IntKeyedComplete(args.teachers))
            => ret = Raise("KeyError")

\* a day column drawn from string-keyed room and teacher tables
C8_Witness ==
    /\ DrawDayDone /\ PatternLabelled
    /\ StrKeyedComplete(args.rooms) /\ StrKeyedComplete(args.teachers)
    /\ ret.tag = "ok"
    /\ RoomRuns(ret.value, 1) = {<<"R">> \o Str(args.daily_classes[1])}
    /\ TeacherRuns(ret.value, 4) = {<<"T">> \o Str(args.daily_classes[4])}

(* ======================= band plan and columns ========================= *)
HeightsDone == pc = "done" /\ op = "XDAY_CLASS_HEIGHT"

DrawXDayDone == pc = "done" /\ op = "draw_xday"

DrawTimesDone == pc = "done" /\ op = "draw_times"

\* the rectangles and the text runs of an element sequence, in emission order
Rects(elements) == SelectSeq(elements, LAMBDA e : e.type = "rect")

TextRuns(elements) == SelectSeq(elements, LAMBDA e : e.type = "text")

WithFill(elements, fill) == SelectSeq(elements, LAMBDA e : e.fill = fill)

IsClassColour(fill) == \E p \in Periods : CLASS_COLORS[p] = fill

ClassRects(elements) == SelectSeq(Rects(elements), LAMBDA e : IsClassColour(e.fill))

RECURSIVE SumHeights(_)
SumHeights(rects) ==
    IF rects = <<>> THEN 0 ELSE Head(rects).height + SumHeights(Tail(rects))

\* vertical extent of a regular day: OTHER_HEIGHT*3 + CLASS_HEIGHT*4 + BREAK_HEIGHT*2
RegularDayTotal(other_height, class_height, break_height) ==
    FX(other_height * 3 + class_height * 4 + break_height * 2)

\* C11 as stated: the regular-day total equals OTHER_HEIGHT*2 +
\* XDAY_CLASS_HEIGHT*8 + BREAK_HEIGHT*3 + OTHER_HEIGHT for every constant set
\* with XDAY_CLASS_HEIGHT derived as in the code.
C11_Original ==
    HeightsDone
    => RegularDayTotal(args.other_height, args.class_height, args.break_height)
         = FX(args.other_height * 2) + (ret * 8) + FX(args.break_height * 3)
             + FX(args.other_height)

\* C11 as amended: for every constant set with XDAY_CLASS_HEIGHT derived as in
\* the code the regular-day total OTHER_HEIGHT*3 + CLASS_HEIGHT*4 +
\* BREAK_HEIGHT*2 equals OTHER_HEIGHT*2 + XDAY_CLASS_HEIGHT*8 + BREAK_HEIGHT*3
\* (two OTHER_HEIGHT bands, not three), and that is the extent the bands of
\* the drawn X-day column add up to, from its origin to its lowest edge.
C11_BandHeights ==
    /\ HeightsDone
        => RegularDayTotal(args.other_height, args.class_height, args.break_height)
             = FX(args.other_height * 2) + (ret * 8) + FX(args.break_height * 3)
    /\ (DrawXDayDone /\ ret.tag = "ok")
        => LET rects == Rects(ret.value)
               total == RegularDayTotal(OTHER_HEIGHT, CLASS_HEIGHT, BREAK_HEIGHT)
           IN  /\ SumHeights(rects) = total
               /\ \A i \in 1..Len(rects) :
                      rects[i].y + rects[i].height <= FX(args.y) + total
               /\ \E i \in 1..Len(rects) :
                      rects[i].y + rects[i].height = FX(args.y) + total

\* the shipped constants: an X-day class band is 132.5 pixels high
C11_Witness ==
    /\ HeightsDone
    /\ args.other_height = OTHER_HEIGHT /\ args.class_height = CLASS_HEIGHT
    /\ args.break_height = BREAK_HEIGHT
    /\ 2 * ret = FX(265)

\* the bands of a returned X-day column, by kind
XDayHeaderBands(elements) == WithFill(Rects(elements), "#AB91FA")

XDayBreakBands(elements) == WithFill(Rects(elements), "#00B6FF")

XDayLunchBands(elements) == WithFill(Rects(elements), "#A8FA91")

\* one header band on top, one lunch band, and eight class bands of height
\* XDAY_CLASS_HEIGHT, top to bottom for periods 1..8, each in its period's
\* colour and holding its period's label
XDayBandsInPeriodOrder(elements) ==
    LET class == ClassRects(elements)
        labels == XDayClasses(args.classes, args.free_period_name)
    IN  /\ Len(XDayHeaderBands(elements)) = 1
        /\ XDayHeaderBands(elements)[1] = Rects(elements)[1]
        /\ Rects(elements)[1].y = FX(args.y)
        /\ Rects(elements)[1].height = FX(OTHER_HEIGHT)
        /\ Len(XDayLunchBands(elements)) = 1
        /\ XDayLunchBands(elements)[1].height = FX(OTHER_HEIGHT)
        /\ Len(class) = 8
        /\ \A p \in 1..8 :
               /\ class[p].fill = CLASS_COLORS[p]
               /\ class[p].height = XDAY_CLASS_HEIGHT
               /\ p < 8 => class[p].y + class[p].height <= class[p + 1].y
               /\ \E n \in 1..Len(elements) :
                      /\ elements[n].type = "text"
                      /\ elements[n].text = DictGet(labels, IntKey(p))
                      /\ elements[n].y > class[p].y
                      /\ elements[n].y < class[p].y + class[p].height
        /\ \A b \in 1..Len(XDayBreakBands(elements)) :
               XDayBreakBands(elements)[b].height = FX(BREAK_HEIGHT)
        /\ Len(Rects(elements))
             = 1 + 8 + Len(XDayBreakBands(elements)) + 1

\* C12 as stated: the X-day column has 1 header band, 8 class bands in
\* ascending period order and colour, 1 lunch band and exactly 2 break bands.
C12_Original ==
    (DrawXDayDone /\ ret.tag = "ok")
    => /\ XDayBandsInPeriodOrder(ret.value)
       /\ Len(XDayBreakBands(ret.value)) = 2

\* C12 as amended: the X-day column has 1 header band, 8 class bands of
\* height XDAY_CLASS_HEIGHT that appear top to bottom for periods 1..8, each
\* in its period's colour, 1 lunch band and exactly 3 break bands (after
\* periods 2, 4 and 7), 13 bands in all.
C12_XDayBands ==
    (DrawXDayDone /\ ret.tag = "ok")
    => /\ XDayBandsInPeriodOrder(ret.value)
       /\ Len(XDayBreakBands(ret.value)) = 3
       /\ Len(Rects(ret.value)) = 13
       /\ \A b \in 1..3 :
              XDayBreakBands(ret.value)[b].y
                = LET after == ClassRects(ret.value)[IF b = 1 THEN 2 ELSE IF b = 2 THEN 4 ELSE 7]
                  IN  after.y + after.height

\* an X-day column drawn from a complete label table
C12_Witness ==
    /\ DrawXDayDone /\ ret.tag = "ok"
    /\ args.classes = TableOf("int", {}, MixedLabels)
    /\ Len(ClassRects(ret.value)) = 8
    /\ ClassRects(ret.value)[8].fill = "#CCCCCC"

\* the gray bands and the labels of a returned times column
GrayBands(elements) == WithFill(Rects(elements), "#888888")

\* the text reads as a time range: it holds a colon and a dash
IsTimeRange(text) ==
    (\E i \in 1..Len(text) : text[i] = ":") /\ (\E i \in 1..Len(text) : text[i] = "-")

\* n gray bands stacked from the origin without gap, the class-height ones
\* where the class bands of a day column lie and the last one where its
\* footer lies, each with one white time-range label at its centre
TimesColumnOf(elements, n) ==
    LET bands == GrayBands(elements)
        labels == TextRuns(elements)
    IN  /\ Len(bands) = n /\ Len(labels) = n /\ Len(elements) = 2 * n
        /\ bands = Rects(elements)
        /\ n > 0 => bands[1].y = FX(args.y)
        /\ \A i \in 1..(n - 1) : bands[i + 1].y = bands[i].y + bands[i].height
        /\ \A i \in 1..n :
               /\ bands[i].height \in {FX(OTHER_HEIGHT), FX(CLASS_HEIGHT), FX(BREAK_HEIGHT)}
               /\ bands[i].width = FX(WIDTH) /\ bands[i].x = FX(args.x)
               /\ labels[i].x = bands[i].x + Frac(bands[i].width, 50)
               /\ labels[i].y = bands[i].y + Frac(bands[i].height, 50)
               /\ labels[i].fill = "#FFFFFF"
               /\ IsTimeRange(labels[i].text)
               /\ \A j \in 1..n : i # j => labels[i].text # labels[j].text
        /\ \A k \in 1..4 :
               \E i \in 1..n : /\ bands[i].y = FX(args.y + DayBandTop[k])
                               /\ bands[i].height = FX(CLASS_HEIGHT)
        /\ \A i \in 1..n : bands[i].height = FX(CLASS_HEIGHT)
               => \E k \in 1..4 : bands[i].y = FX(args.y + DayBandTop[k])

\* the elements moved by (dx, dy)
MovedBy(elements, dx, dy) ==
    [i \in 1..Len(elements) |-> [elements[i] EXCEPT !.x = @ + dx, !.y = @ + dy]]

\* C14 as stated: the times column has exactly 8 gray bands with one
\* time-range label each, on the day-column band plan.
C14_Original ==
    DrawTimesDone => TimesColumnOf(ret.value, 8)

\* C14 as amended: the times column has exactly 9 gray bands (one per row of
\* the day-column band plan: header, class, break, class, lunch, class,
\* break, class, footer), each carrying exactly one literal time-range
\* label at its centre, with heights and vertical offsets that match the
\* day-column band plan; bands and labels depend on nothing but the origin
\* they are moved to.
C14_TimesColumn ==
    DrawTimesDone
    => /\ TimesColumnOf(ret.value, 9)
       /\ GrayBands(ret.value)[9].y = FX(args.y + DayFooterTop)
       /\ GrayBands(ret.value)[9].height = FX(OTHER_HEIGHT)
       /\ SumHeights(GrayBands(ret.value))
            = RegularDayTotal(OTHER_HEIGHT, CLASS_HEIGHT, BREAK_HEIGHT)
       /\ ret.value = MovedBy(draw_times(0, 0), FX(args.x), FX(args.y))

\* the times column drawn where the composer places it
C14_Witness ==
    /\ DrawTimesDone
    /\ args.x = START_X + TIMES_OFFSET_X /\ args.y = START_Y + TIMES_OFFSET_Y
    /\ Len(GrayBands(ret.value)) = 9
    /\ Len(TextRuns(ret.value)) = 9

(* ========================= composed document =========================== *)
CreateSvgOk == CreateSvgDone /\ ret.tag = "ok"

\* the elements of the returned document, in emission order
Emitted == ret.value.canvas.elements

\* the texts of the runs anchored at a point
RunsAtPoint(elements, x, y) ==
    {elements[n].text : n \in {m \in 1..Len(elements) :
        elements[m].type = "text" /\ elements[m].x = x /\ elements[m].y = y}}

\* the name run of period p in an X-day column with origin (x, y)
XDayNameRuns(elements, x, y, p) ==
    RunsAtPoint(elements, FX(x) + Frac(FX(WIDTH), 50),
                FX(y) + XDayClassTop[p] + Frac(XDAY_CLASS_HEIGHT, 30))

\* the label runs of the i-th class band of day column d of a composed
\* document, at the given fraction of the band
DayLabelRuns(elements, d, i, hundredths) ==
    RunsAtPoint(elements,
                FX(START_X + MAIN_OFFSET_X + WIDTH * (d - 1)) + Frac(FX(WIDTH), 50),
                FX(START_Y + MAIN_OFFSET_Y + DayBandTop[i]) + Frac(FX(CLASS_HEIGHT), hundredths))

\* the i-th class band of day column d shows the label, on one line or on
\* two lines that read as the label
DayShows(elements, d, i, label) ==
    LET one == DayLabelRuns(elements, d, i, 50)
        upper == DayLabelRuns(elements, d, i, 35)
        lower == DayLabelRuns(elements, d, i, 60)
    IN  \/ one = {label} /\ upper = {} /\ lower = {}
        \/ /\ one = {}
           /\ Cardinality(upper) = 1 /\ Cardinality(lower) = 1
           /\ \E a \in upper, b \in lower : a \o <<" ">> \o b = label

\* what the X-day column is to show for a label
XDayShown(label, free_period_name) ==
    IF \E i \in 1..Len(label) :
           i + Len(Foundations) - 1 <= Len(label)
           /\ SubSeq(label, i, i + Len(Foundations) - 1) = Foundations
    THEN free_period_name
    ELSE label

\* C13: in the X-day column every period whose label contains the
\* case-sensitive substring "Foundations" is rendered as the free-period
\* name and every other label, lower-case "foundations" included, is rendered
\* unchanged, while the day columns of the same document render the original
\* label of every period.
C13_FoundationsSubstitution ==
    /\ (DrawXDayDone /\ ret.tag = "ok")
        => \A p \in Periods :
               XDayNameRuns(ret.value, args.x, args.y, p)
                 = {XDayShown(DictGet(args.classes, IntKey(p)), args.free_period_name)}
    /\ CreateSvgOk
        => \A p \in Periods :
               LET label == DictGet(args.classes, IntKey(p))
               IN  /\ XDayNameRuns(Emitted, START_X + XDAY_OFFSET_X, START_Y + XDAY_OFFSET_Y, p)
                        = {XDayShown(label, args.free_period_name)}
                   /\ label = <<"f", "o", "u", "n", "d", "a", "t", "i", "o", "n", "s">> => XDayShown(label, args.free_period_name) = label
                   /\ \A d \in 1..4 : \A i \in 1..4 :
                          DayPatterns[d][i] = p => DayShows(Emitted, d, i, label)

\* the spec's example: period 5 is "Foundations (H)", the free-period name is
\* "Study Period"
C13_Witness ==
    /\ CreateSvgOk
    /\ DictGet(args.classes, IntKey(5)) = Foundations \o <<" ", "(", "H", ")">>
    /\ DictGet(args.classes, IntKey(4)) = <<"f", "o", "u", "n", "d", "a", "t", "i", "o", "n", "s">>
    /\ args.free_period_name = StudyPeriod
    /\ XDayNameRuns(Emitted, START_X + XDAY_OFFSET_X, START_Y + XDAY_OFFSET_Y, 5) = {StudyPeriod}
    /\ XDayNameRuns(Emitted, START_X + XDAY_OFFSET_X, START_Y + XDAY_OFFSET_Y, 4) = {<<"f", "o", "u", "n", "d", "a", "t", "i", "o", "n", "s">>}
    /\ DayLabelRuns(Emitted, 1, 3, 35) = {Foundations}
    /\ DayLabelRuns(Emitted, 1, 3, 60) = {<<"(", "H", ")">>}

\* the rectangle covers the anchor point of the text run, edges included
Covers(rect, run) ==
    /\ rect.x <= run.x /\ run.x <= rect.x + rect.width
    /\ rect.y <= run.y /\ run.y <= rect.y + rect.height

IsBackground(e) ==
    /\ e.type = "rect" /\ e.fill = "#FFFFFF"
    /\ e.x = 0 /\ e.y = 0 /\ e.width = FX(CANVAS_WIDTH) /\ e.height = FX(CANVAS_HEIGHT)

\* C15: in every composed document the full-canvas white background
\* rectangle is the first element, and no rectangle emitted after a text run
\* covers that run's anchor point, so that every run has its background
\* emitted before it.
C15_BackgroundsBeforeLabels ==
    CreateSvgOk
    => /\ IsBackground(Emitted[1])
       /\ \A i \in 2..Len(Emitted) : ~IsBackground(Emitted[i])
       /\ \A i \in 1..Len(Emitted) :
              Emitted[i].type = "text"
              => /\ \E j \in 1..(i - 1) :
                        Emitted[j].type = "rect" /\ Covers(Emitted[j], Emitted[i])
                 /\ \A j \in (i + 1)..Len(Emitted) :
                        Emitted[j].type = "rect" => ~Covers(Emitted[j], Emitted[i])

\* a document whose last element is a text run inside a band drawn before it
C15_Witness ==
    /\ CreateSvgOk
    /\ Emitted[Len(Emitted)].type = "text"
    /\ \E j \in 2..(Len(Emitted) - 1) :
           /\ Emitted[j].type = "rect" /\ Emitted[j].fill = "#CCCCCC"
           /\ Covers(Emitted[j], Emitted[Len(Emitted)])

\* what the sub-builders return for the arguments of the call, where the
\* composer places them
TitlePart == draw_titles(args.title)

DayPart(d) ==
    draw_day(START_X + MAIN_OFFSET_X + WIDTH * (d - 1), START_Y + MAIN_OFFSET_Y,
             DayPatterns[d], args.classes, args.rooms, args.teachers).value

SamesPart == draw_sames(START_X + MAIN_OFFSET_X, START_Y + MAIN_OFFSET_Y)

TimesPart == draw_times(START_X + TIMES_OFFSET_X, START_Y + TIMES_OFFSET_Y)

XDayPart ==
    draw_xday(START_X + XDAY_OFFSET_X, START_Y + XDAY_OFFSET_Y, args.classes,
              args.free_period_name).value

\* C16 as stated: the elements are those of the X-day column, the times
\* column, Day 1 to Day 4, the shared bands and the title band, in this order.
C16_Original ==
    CreateSvgOk
    => Emitted = XDayPart \o TimesPart \o DayPart(1) \o DayPart(2) \o DayPart(3) \o DayPart(4)
                 \o SamesPart \o TitlePart

\* C16 as amended: the elements are those of the title band (the white
\* background first), the four day columns Day 1 to Day 4, the shared
\* cross-day bands, the times column and the X-day column, in exactly this
\* order.
C16_CompositionOrder ==
    CreateSvgOk
    => /\ Emitted = TitlePart \o DayPart(1) \o DayPart(2) \o DayPart(3) \o DayPart(4)
                    \o SamesPart \o TimesPart \o XDayPart
       /\ IsBackground(Emitted[1])
       /\ Emitted[Len(Emitted)] = XDayPart[Len(XDayPart)]

\* a document whose parts are all there and differ from one another
C16_Witness ==
    /\ CreateSvgOk
    /\ Len(TitlePart) = 7 /\ Len(SamesPart) = 20 /\ Len(TimesPart) = 18 /\ Len(XDayPart) = 35
    /\ Len(Emitted) = 7 + Len(DayPart(1)) + Len(DayPart(2)) + Len(DayPart(3)) + Len(DayPart(4))
                        + 20 + 18 + 35
    /\ SubSeq(Emitted, Len(Emitted) - 34, Len(Emitted)) = XDayPart
    /\ SubSeq(Emitted, 1, 7) = TitlePart

\* the document create_svg returns for the same arguments with the sizing
\* flag the other way round
WithOtherSizing ==
    create_svg(args.classes, args.rooms, args.teachers, args.title, args.free_period_name,
               ~args.exact_dimension).value

\* the serialized document after the opening tag of its root
AfterRootTag(doc) ==
    SubSeq(CanvasStr(doc.canvas), Len(RootOpenTag(doc.canvas)) + 1,
           Len(CanvasStr(doc.canvas)))

\* C17: for the same tables, title and free-period name the documents
\* composed with exact_dimension false and true differ only in the root
\* width and height ("100%" against CANVAS_WIDTH and CANVAS_HEIGHT): view-box
\* and elements, coordinates included, are the same.
C17_SizingOnlyChangesRootSize ==
    CreateSvgOk
    => LET this == ret.value.canvas
           other == WithOtherSizing.canvas
           exact == IF args.exact_dimension THEN this ELSE other
           fluid == IF args.exact_dimension THEN other ELSE this
       IN  /\ this.elements = other.elements
           /\ this.viewBox = other.viewBox
           /\ this.viewBox = <<"0", " ", "0", " ">> \o Str(CANVAS_WIDTH) \o <<" ">>
                             \o Str(CANVAS_HEIGHT)
           /\ this.preserveAspectRatio = other.preserveAspectRatio
           /\ exact.width = Str(CANVAS_WIDTH) /\ exact.height = Str(CANVAS_HEIGHT)
           /\ fluid.width = <<"1", "0", "0", "%">> /\ fluid.height = <<"1", "0", "0", "%">>
           /\ AfterRootTag(ret.value) = AfterRootTag(WithOtherSizing)

\* a document composed with exact_dimension false, as flask_app asks for
C17_Witness ==
    /\ CreateSvgOk
    /\ ~args.exact_dimension
    /\ ret.value.canvas.width = <<"1", "0", "0", "%">>
    /\ WithOtherSizing.canvas.width = <<"3", "1", "6", "5">>
    /\ ret.value.canvas.viewBox = WithOtherSizing.canvas.viewBox

DayClassRects(elements) ==
    SelectSeq(ClassRects(elements), LAMBDA e : e.height = FX(CLASS_HEIGHT))

XDayClassRects(elements) ==
    SelectSeq(ClassRects(elements), LAMBDA e : e.height = XDAY_CLASS_HEIGHT)

\* the texts of the day-header runs, in emission order
HeaderRuns(elements) ==
    LET runs == SelectSeq(TextRuns(elements),
                          LAMBDA e : /\ e.font_family = TITLE_FONT_FAMILY
                                     /\ e.font_size = BASE_DAY_NUMBERS_TEXT_SIZE)
    IN  [i \in 1..Len(runs) |-> runs[i].text]

\* C19: a document composed from a complete label table has exactly 16
\* day-column class rectangles, 4 in each of the 4 day columns, exactly 8
\* X-day class rectangles and exactly the 5 header runs "X Day", "Day 1",
\* "Day 2", "Day 3", "Day 4"; its canvas is START_X*2 + WIDTH*6 + XDAY_GAP
\* wide and START_Y*2 + TITLE_HEIGHT + OTHER_HEIGHT*3 + CLASS_HEIGHT*4 +
\* BREAK_HEIGHT*2 high whatever the input.
C19_DocumentCounts ==
    CreateSvgOk
    => LET canvas_width == START_X * 2 + WIDTH * 6 + XDAY_GAP
           canvas_height == START_Y * 2 + TITLE_HEIGHT + OTHER_HEIGHT * 3 + CLASS_HEIGHT * 4
                              + BREAK_HEIGHT * 2
       IN  /\ IntKeyedComplete(args.classes)
           /\ Len(DayClassRects(Emitted)) = 16
           /\ \A d \in 1..4 :
                  Len(SelectSeq(DayClassRects(Emitted),
                                LAMBDA e : e.x = FX(START_X + MAIN_OFFSET_X + WIDTH * (d - 1))))
                    = 4
           /\ Len(XDayClassRects(Emitted)) = 8
           /\ Len(ClassRects(Emitted)) = 24
           /\ HeaderRuns(Emitted)
                = <<<<"X", " ", "D", "a", "y">>, <<"D", "a", "y", " ", "1">>, <<"D", "a", "y", " ", "2">>, <<"D", "a", "y", " ", "3">>, <<"D", "a", "y", " ", "4">>>>
           /\ ret.value.canvas.viewBox
                = <<"0", " ", "0", " ">> \o Str(canvas_width) \o <<" ">> \o Str(canvas_height)
           /\ Emitted[1].width = FX(canvas_width) /\ Emitted[1].height = FX(canvas_height)
           /\ args.exact_dimension
                => /\ ret.value.canvas.width = Str(canvas_width)
                   /\ ret.value.canvas.height = Str(canvas_height)

\* a document of 3165 by 2080 pixels composed with exact dimensions
C19_Witness ==
    /\ CreateSvgOk
    /\ args.exact_dimension
    /\ ret.value.canvas.width = <<"3", "1", "6", "5">>
    /\ ret.value.canvas.height = <<"2", "0", "8", "0">>
    /\ Len(DayClassRects(Emitted)) = 16
    /\ args.classes = TableOf("int", {}, FoundationsLabels)

\* the positions at which the style block starts in a serialized document
StyleBlockStarts(str) ==
    {i \in 1..(Len(str) - Len(FONT_STYLE) + 1) :
        /\ str[i] = "<" /\ str[i + 1] = "style"
        /\ SubSeq(str, i, i + Len(FONT_STYLE) - 1) = FONT_STYLE}

\* C20: the returned string is the serialized canvas with the font-face
\* style block inserted exactly once, immediately after the '>' that closes
\* the opening tag of the root, and nowhere else, whatever characters ('>'
\* included) the title and the labels contain.
C20_StyleBlockAfterRootTag ==
    CreateSvgOk
    => LET plain == CanvasStr(ret.value.canvas)
           root == Len(RootOpenTag(ret.value.canvas))
       IN  /\ plain[root] = ">"
           /\ \A i \in 1..(root - 1) : plain[i] # ">"
           /\ ret.value.str
                = SubSeq(plain, 1, root) \o FONT_STYLE \o SubSeq(plain, root + 1, Len(plain))
           /\ StyleBlockStarts(ret.value.str) = {root + 1}
           /\ StyleBlockStarts(plain) = {}

\* a title and a label hold '>'
C20_Witness ==
    /\ CreateSvgOk
    /\ args.title = <<"a", ">", "b">>
    /\ DictGet(args.classes, IntKey(8)) = <<"B", ">", "8">>
    /\ Cardinality({i \in 1..Len(ret.value.str) : ret.value.str[i] = ">"})
         > Cardinality({i \in 1..Len(CanvasStr(ret.value.canvas)) :
                           CanvasStr(ret.value.canvas)[i] = ">"})
    /\ \E i \in 1..(Len(ret.value.str) - 2) :
           ret.value.str[i] = "a" /\ ret.value.str[i + 1] = ">" /\ ret.value.str[i + 2] = "b"

DayColumnX(d) == FX(START_X + MAIN_OFFSET_X + WIDTH * (d - 1))

\* the rectangles of day column d of a composed document, in emission order
DayColumnRects(elements, d) ==
    SelectSeq(Rects(elements),
              LAMBDA e : e.x = DayColumnX(d) /\ e.width = FX(WIDTH)
                         /\ e.height \in {FX(CLASS_HEIGHT), FX(OTHER_HEIGHT)}
                         /\ e.y >= FX(START_Y + MAIN_OFFSET_Y + OTHER_HEIGHT))

\* the rectangles are the 4 class bands of the pattern, top to bottom, each
\* CLASS_HEIGHT high and filled with the colour of its period, then the
\* white footer OTHER_HEIGHT high
IsDayColumn(rects, daily_classes) ==
    /\ Len(rects) = 5
    /\ \A i \in 1..4 :
           /\ rects[i].height = FX(CLASS_HEIGHT)
           /\ rects[i].fill = CLASS_COLORS[daily_classes[i]]
           /\ rects[i].y < rects[i + 1].y
    /\ rects[5].height = FX(OTHER_HEIGHT)
    /\ rects[5].fill = "#FFFFFF"

\* the fills period p is drawn with anywhere in a composed document
PeriodFills(elements, p) ==
    {DayColumnRects(elements, d)[i].fill :
        <<d, i>> \in {q \in (1..4) \X (1..4) : DayPatterns[q[1]][q[2]] = p}}
    \cup {XDayClassRects(elements)[p].fill}

\* C22: each day column emits, for the 4 periods of its pattern in pattern
\* order from top to bottom, exactly one rectangle of height CLASS_HEIGHT
\* filled with CLASS_COLORS of that period, followed by exactly one white
\* footer rectangle of height OTHER_HEIGHT; so in all four day columns and in
\* the X-day column a given period number always gets the same fill colour.
C22_DayColumnRectangles ==
    /\ (DrawDayDone /\ ret.tag = "ok") => IsDayColumn(Rects(ret.value), args.daily_classes)
    /\ CreateSvgOk
         => /\ \A d \in 1..4 : IsDayColumn(DayColumnRects(Emitted, d), DayPatterns[d])
            /\ \A p \in Periods : PeriodFills(Emitted, p) = {CLASS_COLORS[p]}

\* a composed document whose third day column is drawn: period 3 is on top
\* there and second in the first column
C22_Witness ==
    /\ CreateSvgOk
    /\ DayColumnRects(Emitted, 3)[1].fill = CLASS_COLORS[3]
    /\ DayColumnRects(Emitted, 1)[2].fill = CLASS_COLORS[3]
    /\ XDayClassRects(Emitted)[3].fill = CLASS_COLORS[3]

(* ============================ vertical tiling ========================== *)
XDayBandsDone == pc = "done" /\ op = "draw_xday.rects"

BandLo(b) == IF b.height >= 0 THEN b.y ELSE b.y + b.height

BandHi(b) == IF b.height >= 0 THEN b.y + b.height ELSE b.y

RECURSIVE SumExtents(_)
SumExtents(bands) ==
    IF bands = <<>> THEN 0
    ELSE (BandHi(Head(bands)) - BandLo(Head(bands))) + SumExtents(Tail(bands))

\* the bands lie between top and bottom, no two of them overlap and their
\* extents add up to bottom - top: they cover it without gap or overlap
Tiles(bands, top, bottom) ==
    /\ \A i \in 1..Len(bands) : top <= BandLo(bands[i]) /\ BandHi(bands[i]) <= bottom
    /\ \A i, j \in 1..Len(bands) :
           i < j => \/ BandHi(bands[i]) <= BandLo(bands[j])
                    \/ BandHi(bands[j]) <= BandLo(bands[i])
    /\ SumExtents(bands) = bottom - top

\* the top and height of each rectangle, in emission order
BandsOf(rects) == [i \in 1..Len(rects) |-> [y |-> rects[i].y, height |-> rects[i].height]]

XDayBandsTile ==
    Tiles(ret, FX(args.y),
          FX(args.y) + RegularDayTotal(args.other_height, args.class_height,
                                       args.break_height))

\* C23 as stated: for any positive constant set with XDAY_CLASS_HEIGHT
\* derived as in the code, the bands of the X-day column tile the column
\* without gap or overlap from y to y + OTHER_HEIGHT*3 + CLASS_HEIGHT*4 +
\* BREAK_HEIGHT*2.
C23_Original == XDayBandsDone => XDayBandsTile

\* C23 as amended: for any positive constant set whose derived
\* XDAY_CLASS_HEIGHT is not negative, that is BREAK_HEIGHT <= OTHER_HEIGHT +
\* 4*CLASS_HEIGHT, the bands of the X-day column tile the column without gap
\* or overlap from y to y + OTHER_HEIGHT*3 + CLASS_HEIGHT*4 + BREAK_HEIGHT*2,
\* the extent of a regular-day column; the shipped constants are such a set
\* and the drawn column has exactly these bands.
C23_XDayTiling ==
    /\ (XDayBandsDone /\ args.break_height <= args.other_height + 4 * args.class_height)
         => XDayBandsTile
    /\ (DrawXDayDone /\ ret.tag = "ok")
         => /\ BandsOf(Rects(ret.value))
                 = xday_bands(args.y, OTHER_HEIGHT, BREAK_HEIGHT, XDAY_CLASS_HEIGHT)
            /\ Tiles(BandsOf(Rects(ret.value)), FX(args.y),
                     FX(args.y) + RegularDayTotal(OTHER_HEIGHT, CLASS_HEIGHT, BREAK_HEIGHT))

\* a constant set other than the shipped one with class bands of positive
\* height below a break band higher than they are
C23_Witness ==
    /\ XDayBandsDone
    /\ args.other_height = 2 /\ args.class_height = 3 /\ args.break_height = 6
    /\ ret[2].height = FX(1)
    /\ ret[13].y + ret[13].height = FX(args.y + 30)

(* ========================= termination of the fit ====================== *)
\* the sizes the loop has tested are base_size, base_size - 1, ... one by
\* one, none below min_size and at most base_size - min_size + 1 of them
CandidatesBounded ==
    local.tag = "fit"
    => LET examined == local.examined
       IN  /\ \A i \in 1..Len(examined) :
                  /\ examined[i] = args.base_size - (i - 1)
                  /\ examined[i] >= args.min_size
           /\ Len(examined) <= args.base_size - args.min_size + 1
              \/ (args.base_size < args.min_size /\ examined = <<>>)
           /\ pc = "done"
                => ret = fit_text_to_width(args.text, args.max_width, args.base_size,
                                           args.min_size, args.font_base64, args.allow_split)

\* C24: fit_text_to_width terminates for every input: after the initial
\* base-size test it examines at most base_size - min_size + 1 candidate
\* sizes, strictly decreasing by one, and never a size below min_size (none
\* when base_size < min_size).
C24_FitTerminates == []CandidatesBounded /\ <>(pc = "done")

\* a call that tested every size from base_size down to min_size
C24_Witness ==
    /\ pc = "done"
    /\ local.tag = "fit"
    /\ args.min_size = 1
    /\ Len(local.examined) = args.base_size
    /\ Len(local.examined) >= 3
    /\ ret.size = 1

(* ======================== calendar event partition ===================== *)
FormatDone == pc = "done" /\ op = "format_schedule_for_events"

\* the events of the list that have a non-empty summary
WithSummary(events) ==
    {i \in 1..Len(events) : events[i].summary.tag = "str" /\ events[i].summary.s # <<>>}

Parsed(event) == parse_event_summary(event.summary.s)

Recognized(events) == {i \in WithSummary(events) : Parsed(events[i]).period.tag = "str"}

RoomOf(event) == format_room_name(EventGet(event.location, PyStr(<<>>)))

RECURSIVE SumEntries(_)
SumEntries(schedule) ==
    IF schedule = <<>> THEN 0 ELSE Len(Head(schedule)[2].name) + SumEntries(Tail(schedule))

\* C25: format_schedule_for_events partitions its input: every event with a
\* non-empty summary is accounted for exactly once, either appended (name
\* and room together, so the name list and the room list of each period
\* have equal length) under a period key that is a non-empty string of
\* digits, or listed in the unrecognized list; events without a summary
\* appear in neither.
C25_EventsPartitioned ==
    FormatDone
    => LET events == args.events
           schedule == ret.formatted_schedule
           unrecognized == ret.unrecognized_events
       IN  /\ SumEntries(schedule) + Len(unrecognized) = Cardinality(WithSummary(events))
           /\ \A n \in 1..Len(schedule) :
                  /\ schedule[n][1].kind = "str" /\ IsDigitString(schedule[n][1].s)
                  /\ Len(schedule[n][2].name) = Len(schedule[n][2].room)
                  /\ Len(schedule[n][2].name) >= 1
                  /\ \A m \in 1..Len(schedule) : schedule[m][1] = schedule[n][1] => m = n
           /\ \A i \in WithSummary(events) \ Recognized(events) :
                  Cardinality({k \in 1..Len(unrecognized) :
                                   unrecognized[k] = events[i].summary.s})
                    = Cardinality({j \in WithSummary(events) \ Recognized(events) :
                                       events[j].summary.s = events[i].summary.s})
           /\ \A i \in Recognized(events) :
                  /\ DictHas(schedule, StrKey(Parsed(events[i]).period.s))
                  /\ LET entry == DictGet(schedule, StrKey(Parsed(events[i]).period.s))
                     IN  Cardinality({k \in 1..Len(entry.name) :
                                          /\ entry.name[k] = Parsed(events[i]).class_name.s
                                          /\ entry.room[k] = RoomOf(events[i])})
                           = Cardinality({j \in Recognized(events) :
                                              /\ Parsed(events[j]) = Parsed(events[i])
                                              /\ RoomOf(events[j]) = RoomOf(events[i])})

\* two events of period 6 in different rooms: one entry with two names and
\* two rooms
C25_Witness ==
    /\ FormatDone
    /\ Len(args.events) = 2
    /\ Len(ret.formatted_schedule) = 1
    /\ ret.formatted_schedule[1][1] = StrKey(<<"6">>)
    /\ ret.formatted_schedule[1][2].name = << <<"A", "r", "t">>, <<"A", "r", "t">> >>
    /\ ret.formatted_schedule[1][2].room
         = << <<"V", "A", "S", "C", " ", "1", "2">>, <<"U", "S", "Q", "u", "a", "d", " ", "1", "2", "3">> >>
    /\ ret.unrecognized_events = <<>>

(* ========================== horizontal layout ========================== *)
InsideCanvas(r) ==
    /\ r.width >= 0 /\ r.height >= 0
    /\ 0 <= r.x /\ r.x + r.width <= FX(CANVAS_WIDTH)
    /\ 0 <= r.y /\ r.y + r.height <= FX(CANVAS_HEIGHT)

\* left edges of the six columns as the claim lays them out: X-day, times,
\* Day 1 .. Day 4
ColumnLeft ==
    LET xday == FX(START_X)
        times == xday + FX(WIDTH) + FX(XDAY_GAP)
        day1 == times + FX(WIDTH)
    IN  <<xday, times, day1, day1 + FX(WIDTH), day1 + FX(WIDTH * 2), day1 + FX(WIDTH * 3)>>

\* the rectangles one column wide, other than the shared header regions
ColumnBands(elements) ==
    SelectSeq(Rects(elements), LAMBDA r : r.width = FX(WIDTH) /\ r.fill # "#AB91FA")

\* the fills of the class bands CLASS_HEIGHT high whose left edge is x
ClassFillsAt(elements, x) ==
    LET bands == SelectSeq(DayClassRects(elements), LAMBDA r : r.x = x)
    IN  [i \in 1..Len(bands) |-> bands[i].fill]

\* C26: every rectangle of a composed document lies inside the canvas
\* [0, CANVAS_WIDTH] x [0, CANVAS_HEIGHT], and the six columns are laid out
\* left to right as X-day, times, Day 1, Day 2, Day 3, Day 4 with no
\* horizontal overlap: the X-day column starts at START_X, the times column
\* starts XDAY_GAP after the X-day column ends, Day 1 starts where the times
\* column ends, and Day 4 ends START_X before the right canvas edge.
C26_ColumnsInsideCanvas ==
    CreateSvgOk
    => /\ \A n \in 1..Len(Rects(Emitted)) : InsideCanvas(Rects(Emitted)[n])
       /\ {ColumnBands(Emitted)[n].x : n \in 1..Len(ColumnBands(Emitted))}
            = {ColumnLeft[k] : k \in 1..6}
       /\ \A k \in 1..5 : ColumnLeft[k] + FX(WIDTH) <= ColumnLeft[k + 1]
       /\ ColumnLeft[6] + FX(WIDTH) = FX(CANVAS_WIDTH - START_X)
       /\ \A n \in 1..Len(XDayClassRects(Emitted)) :
              XDayClassRects(Emitted)[n].x = ColumnLeft[1]
       /\ \A n \in 1..Len(GrayBands(Emitted)) : GrayBands(Emitted)[n].x = ColumnLeft[2]
       /\ \A d \in 1..4 :
              ClassFillsAt(Emitted, ColumnLeft[2 + d])
                = [i \in 1..4 |-> CLASS_COLORS[DayPatterns[d][i]]]

\* a composed document: its times column starts at 715 and its last day
\* column ends at 2965 on a canvas 3165 wide
C26_Witness ==
    /\ CreateSvgOk
    /\ Len(GrayBands(Emitted)) = 9
    /\ GrayBands(Emitted)[1].x = FX(715)
    /\ \E n \in 1..Len(Rects(Emitted)) :
           Rects(Emitted)[n].x + Rects(Emitted)[n].width = FX(2965)
    /\ Rects(Emitted)[1].width = FX(3165)

(* ====================== tiling of the day-column block ================= *)
\* the rectangles, other than the page background, that span the whole
\* width of day column d: its own bands and the shared cross-day bands
BandsOverDay(elements, d) ==
    SelectSeq(Rects(elements),
              LAMBDA r : /\ r.x <= DayColumnX(d)
                         /\ r.x + r.width >= DayColumnX(d) + FX(WIDTH)
                         /\ r.width < FX(CANVAS_WIDTH))

\* the header regions of the day-column block, in emission order
DayHeaderRegions(elements) ==
    SelectSeq(WithFill(Rects(elements), "#AB91FA"), LAMBDA r : r.x >= DayColumnX(1))

BlockTop == FX(START_Y + MAIN_OFFSET_Y)

\* C27: within the day-column block, the rectangles of a day column (4 class
\* bands and footer) together with the shared cross-day bands (header row,
\* break, lunch, break) tile the vertical extent from the block origin to
\* origin + OTHER_HEIGHT*3 + CLASS_HEIGHT*4 + BREAK_HEIGHT*2 with no gap and
\* no vertical overlap, and the three header regions (widths 2*WIDTH, WIDTH,
\* WIDTH) span exactly the four day columns.
C27_DayBlockTiling ==
    CreateSvgOk
    => /\ \A d \in 1..4 :
              /\ Len(BandsOverDay(Emitted, d)) = 9
              /\ Len(SelectSeq(BandsOverDay(Emitted, d), LAMBDA r : r.width = FX(WIDTH * 4)))
                   = 3
              /\ Tiles(BandsOf(BandsOverDay(Emitted, d)), BlockTop,
                       BlockTop + RegularDayTotal(OTHER_HEIGHT, CLASS_HEIGHT, BREAK_HEIGHT))
       /\ LET regions == DayHeaderRegions(Emitted)
          IN  /\ [i \in 1..Len(regions) |-> regions[i].width]
                   = <<FX(WIDTH * 2), FX(WIDTH), FX(WIDTH)>>
              /\ regions[1].x = DayColumnX(1)
              /\ regions[2].x = regions[1].x + regions[1].width
              /\ regions[3].x = regions[2].x + regions[2].width
              /\ regions[3].x + regions[3].width = DayColumnX(4) + FX(WIDTH)
              /\ \A i \in 1..3 : regions[i].y = BlockTop /\ regions[i].height = FX(OTHER_HEIGHT)

\* a composed document: over Day 3 lie its five bands, the second header
\* region and the three shared bands, the lowest ending at 1880
C27_Witness ==
    /\ CreateSvgOk
    /\ DayHeaderRegions(Emitted)[2].x = DayColumnX(3)
    /\ \E n \in 1..Len(BandsOverDay(Emitted, 3)) :
           /\ BandsOverDay(Emitted, 3)[n].fill = "#FFFFFF"
           /\ BandsOverDay(Emitted, 3)[n].y + BandsOverDay(Emitted, 3)[n].height = FX(1880)
    /\ \E n \in 1..Len(BandsOverDay(Emitted, 3)) :
           BandsOverDay(Emitted, 3)[n].fill = "#A8FA91"

(* ========================= answers of POST /generate =================== *)
GenerateDone == pc = "done" /\ op = "generate_schedule"

\* the members of the posted object that are objects themselves
PostedDicts == SelectSeq(args.form.classes.items, LAMBDA kv : kv[2].kind = "object")

\* C28: normalize_classes never returns None (it returns a table or raises),
\* so in POST /generate the branch that answers 400 "Invalid classes format"
\* is never taken: every request ends in exactly one of an SVG response, 400
\* for undecodable JSON, or 500 for any other failure such as a non-numeric
\* key or a missing period.
C28_GenerateAnswers ==
    /\ NormDone => ret.tag \in {"ok", "raise"}
    /\ GenerateDone
         => /\ ret.text # "Error: Invalid classes format"
            /\ \/ /\ ret.status = 200 /\ ret.mimetype = "image/svg+xml"
                  /\ ret.svg # <<>>
                  /\ args.form.classes.tag = "absent" \/ args.form.classes.kind = "object"
               \/ /\ ret.status = 400
                  /\ ret.text = "Error: Invalid JSON format for classes"
                  /\ args.form.classes.kind = "malformed"
               \/ /\ ret.status = 500
                  /\ ret.text = "Error generating schedule: "
                  /\ ret.error \in {"ValueError", "KeyError", "AttributeError"}
            /\ args.form.classes.kind = "malformed" => ret.status = 400
            /\ args.form.classes.kind = "object"
                 => /\ (\E i \in 1..Len(PostedDicts) : ~IsDigitString(PostedDicts[i][1]))
                         => ret.status = 500
                    /\ (\E p \in Periods :
                            \A i \in 1..Len(PostedDicts) : PostedDicts[i][1] # Str(p))
                         => ret.status = 500

\* a posted object with a key that is no number: the normalizer raises and
\* the answer is 500
C28_Witness ==
    /\ GenerateDone
    /\ args.form.classes.kind = "object"
    /\ \E i \in 1..Len(PostedDicts) : PostedDicts[i][1] = <<"a">>
    /\ ret.status = 500
    /\ ret.error = "ValueError"

(* ========================= round trip of the split ===================== *)
\* no space at either end and no two spaces side by side
SingleSpaced(text) ==
    /\ text # <<>> => text[1] # " " /\ text[Len(text)] # " "
    /\ \A i \in 1..(Len(text) - 1) : ~(text[i] = " " /\ text[i + 1] = " ")

====
